---- MODULE Spec2Model ----
(***************************************************************************)
(* A model of the SUR notation tools: the incremental CompositionBuilder   *)
(* of surmaker-cli.py and the SURParser / data model of sur-cli.           *)
(*                                                                         *)
(* Python strings are modelled as sequences of one-character strings, so   *)
(* that scanning, joining and prefix tests are computed, not assumed:      *)
(* "sa" is <<"s", "a">> and the empty string is <<>>.                      *)
(***************************************************************************)
EXTENDS Integers, Sequences, FiniteSets, TLC

(***************************************************************************)
(* Bounds of the model.                                                    *)
(***************************************************************************)
\* calls made on one builder under Spec
MaxCalls == 4
\* largest target index handed to add_empty_beats
MaxTarget == 9
\* add_beat calls made on one builder under SpecWrap
MaxWrapCalls == 18
\* lexemes in the content line of a composition text under SpecParse
MaxLexemes == 3
\* lines in a composition text made of whole lines under SpecParse
MaxLines == 3
\* elements in a stream handed to the grouper under SpecGroup
MaxElems == 6
\* characters in a line handed to parse_line under SpecLine
MaxLineLen == 4
\* blocks in a text handed to parse_file under SpecFile
MaxBlocks == 4
\* composition lines in a file handed to from_file under SpecLoad
MaxLoadLines == 2
\* commands entered in one interactive session under SpecUndo
MaxUndoCalls == 5
\* commands entered in one interactive session under SpecShow
\* calls made on the builder of one generator under SpecDoctor
MaxDoctorCalls == 4
MaxShowCalls == 8
\* lines in the composition block of a file the editor loads under SpecEditor
MaxEditorLines == 4
\* beats added to the builder of a loaded file under SpecLoadBeats
MaxLoadedBeats == 5

(***************************************************************************)
(* Strings.                                                                *)
(***************************************************************************)
\* Python's None: a value no string equals (its only item is no character)
None == <<"None">>
DASH == <<"-">>
STAR == <<"*">>
SPACE == " "
Whitespace == {" ", "\t", "\n", "\r"}

Max(a, b) == IF a >= b THEN a ELSE b

\* c in s
Contains(s, c) == \E i \in 1..Len(s) : s[i] = c

\* s.startswith(c) for a one-character c
StartsWith(s, c) == Len(s) >= 1 /\ s[1] = c

\* s[i:j] of Python for 0 <= i <= j <= len(s), as the items i+1 .. j
Slice(s, i, j) == [k \in 1..(j - i) |-> s[i + k]]

\* s.startswith(pat, i): pat occurs in s at the 0-based offset i
OccursAt(s, pat, i) ==
    /\ i + Len(pat) <= Len(s)
    /\ \A k \in 1..Len(pat) : s[i + k] = pat[k]

\* s.replace(pat, rep) for a non-empty pat: leftmost, non-overlapping
RECURSIVE Replace(_, _, _)
Replace(s, pat, rep) ==
    IF s = <<>> THEN <<>>
    ELSE IF OccursAt(s, pat, 0)
         THEN rep \o Replace(Slice(s, Len(pat), Len(s)), pat, rep)
         ELSE <<s[1]>> \o Replace(Tail(s), pat, rep)

\* s.split(): the maximal runs of characters that are not whitespace
RECURSIVE SplitWs(_, _)
SplitWs(s, cur) ==
    IF s = <<>> THEN (IF cur = <<>> THEN <<>> ELSE <<cur>>)
    ELSE IF s[1] \in Whitespace
         THEN (IF cur = <<>> THEN <<>> ELSE <<cur>>) \o SplitWs(Tail(s), <<>>)
         ELSE SplitWs(Tail(s), Append(cur, s[1]))

\* sep.join(parts)
RECURSIVE Join(_, _)
Join(parts, sep) ==
    IF parts = <<>> THEN <<>>
    ELSE IF Len(parts) = 1 THEN parts[1]
    ELSE parts[1] \o sep \o Join(Tail(parts), sep)

(***************************************************************************)
(* TaalInfo (surmaker-cli.py).                                             *)
(***************************************************************************)
TAAL_PATTERNS ==
    [teental |-> 16, jhaptaal |-> 10, ektaal |-> 12, rupak |-> 7, keherwa |-> 8]

\* the taal names a session is started with here: the widest and the
\* narrowest row of the table, and "dadra", which is not in the table
TaalNames == {"teental", "rupak", "dadra"}

get_max_beats(taal) ==
    IF taal \in DOMAIN TAAL_PATTERNS THEN TAAL_PATTERNS[taal] ELSE 16

(***************************************************************************)
(* State.                                                                  *)
(***************************************************************************)
VARIABLES
    taal,             \* the taal the builder was constructed with
    builder,          \* the CompositionBuilder object, one field per attribute
    formatted_lines,  \* what the last get_formatted_composition returned
    lastOp,           \* history: the last call made on the builder, with its arguments
    calls,            \* history: the number of calls made on the builder
    before_add_beat,  \* history: the builder as the last add_beat found it
    content,          \* the composition text handed to SURParser.parse
    pc,               \* how far the parse / render / parse run has come
    composition,      \* what parse(content) returned or raised
    rendered,         \* the text of the parsed sections
    reparsed,         \* what parse(rendered) returned or raised
    stream,           \* the element stream handed to _elements_to_beats
    gpc,              \* whether the stream has been grouped
    grouped,          \* what _elements_to_beats returned or raised
    input_line,       \* the line handed to parse_line
    lpc,              \* how far parse_line has come
    line_matches,     \* history: the matches _tokenize went through
    line_tokens,      \* what _tokenize returned
    line_elements,    \* what _tokens_to_elements returned or raised
    line_beats,       \* what parse_line returned or raised
    file_content,     \* the text handed to parse_file
    fpc,              \* whether parse_file has been called
    file_result,      \* what parse_file returned or raised
    sur_text,         \* the text of the file handed to SURFileGenerator.from_file
    spc,              \* whether from_file has been called
    generator,        \* the SURFileGenerator from_file returned, or what it raised
    unrendered,       \* a second builder, given the add_beat calls of the first alone
    editor,           \* the Editor object: its file, its cursor and its modified flag
    command,          \* history: the last command the editor handled
    editor_raised     \* the exception that ended the editor session, if any

bvars == <<taal, builder, formatted_lines, lastOp, calls, before_add_beat>>
pvars == <<content, pc, composition, rendered, reparsed>>
gvars == <<stream, gpc, grouped>>
lvars == <<input_line, lpc, line_matches, line_tokens, line_elements, line_beats>>
fvars == <<file_content, fpc, file_result>>
svars == <<sur_text, spc, generator>>
hvars == <<unrendered>>
evars == <<editor, command, editor_raised>>
vars == <<bvars, pvars, gvars, lvars, fvars, svars, hvars, evars>>

\* what the calls on one object leave alone: the other objects
besides_builder == <<pvars, gvars, lvars, fvars, svars, hvars, evars>>
besides_parse == <<bvars, gvars, lvars, fvars, svars, hvars, evars>>
besides_group == <<bvars, pvars, lvars, fvars, svars, hvars, evars>>
besides_line == <<bvars, pvars, gvars, fvars, svars, hvars, evars>>
besides_file == <<bvars, pvars, gvars, lvars, svars, hvars, evars>>
besides_load == <<bvars, pvars, gvars, lvars, fvars, hvars, evars>>
besides_builders == <<pvars, gvars, lvars, fvars, svars, evars>>
besides_editor == <<bvars, pvars, gvars, lvars, fvars, svars, hvars>>

\* what a call returned (err = "none") or the exception it raised
Ok(v) == [err |-> "none", val |-> v]
Raise(e) == [err |-> e, val |-> <<>>]
\* an exception raised by a call goes up to the caller; a value goes on
AndThen(r, F(_)) == IF r.err # "none" THEN r ELSE F(r.val)

\* CompositionBuilder.__init__
NewBuilder(t) ==
    [current_beat      |-> 1,
     max_beats         |-> get_max_beats(t),
     composition_lines |-> <<>>,
     current_line      |-> <<>>,
     section_headers   |-> <<>>,
     last_note         |-> None,
     last_lyric        |-> None]

Op(name, lyrics, notes, target, header, beats) ==
    [name |-> name, lyrics |-> lyrics, notes |-> notes, target |-> target,
     header |-> header, beats |-> beats]

NoOp == Op("init", None, None, 0, <<>>, <<>>)

(***************************************************************************)
(* CompositionBuilder methods, as functions of the object.                 *)
(***************************************************************************)
\* finalize_line, moving the headers anchored at the end below the flushed row
finalize_line_renumbering(b) ==
    IF b.current_line # <<>>
    THEN [b EXCEPT !.composition_lines = Append(@, b.current_line),
                   !.current_line = <<>>,
                   !.current_beat = 1,
                   !.section_headers =
                       [k \in 1..Len(@) |->
                           IF @[k][1] = Len(b.composition_lines)
                           THEN <<@[k][1] + 1, @[k][2]>>
                           ELSE @[k]]]
    ELSE b

finalize_line(b) ==
    IF b.current_line # <<>>
    THEN [b EXCEPT !.composition_lines = Append(@, b.current_line),
                   !.current_line = <<>>,
                   !.current_beat = 1]
    ELSE b

\* the while loop of add_empty_beats, with a wrong loop test
RECURSIVE add_empty_beats_inclusive(_, _)
add_empty_beats_inclusive(b, target_beat) ==
    IF b.current_beat <= target_beat
    THEN add_empty_beats_inclusive(
             [b EXCEPT !.current_line = Append(@, <<b.current_beat, DASH, DASH>>),
                       !.current_beat = @ + 1],
             target_beat)
    ELSE b

\* the while loop of add_empty_beats, remembering the silence it writes as
\* the last note and lyric
RECURSIVE add_empty_beats_remembering(_, _)
add_empty_beats_remembering(b, target_beat) ==
    IF b.current_beat < target_beat
    THEN add_empty_beats_remembering(
             [b EXCEPT !.current_line = Append(@, <<b.current_beat, DASH, DASH>>),
                       !.current_beat = @ + 1,
                       !.last_note = DASH,
                       !.last_lyric = DASH],
             target_beat)
    ELSE b

RECURSIVE add_empty_beats(_, _)
add_empty_beats(b, target_beat) ==
    IF b.current_beat < target_beat
    THEN add_empty_beats(
             [b EXCEPT !.current_line = Append(@, <<b.current_beat, DASH, DASH>>),
                       !.current_beat = @ + 1],
             target_beat)
    ELSE b

\* add_beat, lines 46-52: the sustain marker takes the remembered pair,
\* anything else is remembered.  The result is <<builder, lyrics, notes>>.
handle_sustain_forgetful(b, lyrics, notes) ==
    IF notes = STAR
    THEN <<[b EXCEPT !.last_note = None, !.last_lyric = None],
           b.last_lyric, b.last_note>>
    ELSE <<[b EXCEPT !.last_note = notes, !.last_lyric = lyrics], lyrics, notes>>

handle_sustain(b, lyrics, notes) ==
    IF notes = STAR
    THEN <<b, b.last_lyric, b.last_note>>
    ELSE <<[b EXCEPT !.last_note = notes, !.last_lyric = lyrics], lyrics, notes>>

\* add_beat, lines 54-56
dash_if_empty(x) == IF x \in {None, <<>>, DASH} THEN DASH ELSE x

\* add_beat, lines 61-64, wrapping one beat early
auto_wrap_early(b) ==
    IF b.current_beat >= b.max_beats
    THEN [finalize_line(b) EXCEPT !.current_beat = 1]
    ELSE b

auto_wrap(b) ==
    IF b.current_beat > b.max_beats
    THEN [finalize_line(b) EXCEPT !.current_beat = 1]
    ELSE b

add_beat(b, lyrics, notes) ==
    LET b1 == IF b.current_beat > b.max_beats THEN finalize_line(b) ELSE b
        h  == handle_sustain(b1, lyrics, notes)
        b2 == h[1]
        l  == dash_if_empty(h[2])
        n  == dash_if_empty(h[3])
        b3 == [b2 EXCEPT !.current_line = Append(@, <<b2.current_beat, l, n>>),
                         !.current_beat = @ + 1]
    IN  auto_wrap(b3)

add_line(b, beats) ==
    IF beats # <<>>
    THEN [b EXCEPT !.composition_lines = Append(@, beats)]
    ELSE b

add_section_header(b, header) ==
    [b EXCEPT !.section_headers = Append(@, <<Len(b.composition_lines), header>>)]

\* get_formatted_composition, lines 104-120: the text of one beat
AllOneChar(parts) == \A k \in 1..Len(parts) : Len(parts[k]) = 1

format_beat(lyric, note) ==
    IF lyric # DASH /\ note # DASH
    THEN LET note1 == IF ~Contains(note, SPACE) /\ AllOneChar(SplitWs(note, <<>>))
                      THEN Replace(note, <<SPACE>>, <<>>)
                      ELSE note
         IN  <<"[">> \o note1 \o <<SPACE>> \o lyric \o <<"]">>
    ELSE IF lyric # DASH
    THEN lyric
    ELSE IF note # DASH
    THEN LET note1 == IF Contains(note, "-")
                      THEN Replace(note, <<SPACE, "-", SPACE>>, <<"-">>)
                      ELSE note
             note2 == IF Contains(note1, SPACE) /\ AllOneChar(SplitWs(note1, <<>>))
                      THEN Replace(note1, <<SPACE>>, <<>>)
                      ELSE note1
         IN  note2
    ELSE DASH

\* get_formatted_composition, line 122
format_row(line) ==
    <<"b", ":", SPACE>>
        \o Join([k \in 1..Len(line) |-> format_beat(line[k][2], line[k][3])], <<SPACE>>)

\* the header loops of get_formatted_composition (lines 95-100 and 125-130),
\* without the blank line
RECURSIVE emit_headers_no_blank(_, _, _, _)
emit_headers_no_blank(hs, header_idx, i, out) ==
    IF header_idx < Len(hs) /\ hs[header_idx + 1][1] = i
    THEN emit_headers_no_blank(hs, header_idx + 1, i, Append(out, hs[header_idx + 1][2]))
    ELSE <<header_idx, out>>

\* the header loops of get_formatted_composition (lines 95-100 and 125-130):
\* header_idx is 0-based as in the source; the result is <<header_idx, lines>>
RECURSIVE emit_headers(_, _, _, _)
emit_headers(hs, header_idx, i, out) ==
    IF header_idx < Len(hs) /\ hs[header_idx + 1][1] = i
    THEN LET out1 == IF out # <<>> /\ ~StartsWith(out[Len(out)], "#")
                     THEN Append(out, <<>>)
                     ELSE out
         IN  emit_headers(hs, header_idx + 1, i, Append(out1, hs[header_idx + 1][2]))
    ELSE <<header_idx, out>>

\* the row loop of get_formatted_composition from row i (0-based) on
RECURSIVE format_from(_, _, _, _)
format_from(b, i, header_idx, out) ==
    IF i < Len(b.composition_lines)
    THEN LET e == emit_headers(b.section_headers, header_idx, i, out)
         IN  format_from(b, i + 1, e[1],
                         Append(e[2], format_row(b.composition_lines[i + 1])))
    ELSE emit_headers(b.section_headers, header_idx, Len(b.composition_lines), out)[2]

\* the list get_formatted_composition returns; the object it leaves is
\* finalize_line(b)
get_formatted_composition(b) == format_from(finalize_line(b), 0, 0, <<>>)

(***************************************************************************)
(* Inputs of the builder.                                                  *)
(***************************************************************************)
Lyrics == {None, <<"s", "a">>}
Notes == {None, <<"S">>, <<"R">>, STAR}
Headers == {<<"#", "A">>, <<"#", "B">>}
\* rows as from_file hands them to add_line: [position, lyrics or "-", notes or "-"]
LineInputs ==
    { <<>>,
      << <<1, DASH, <<"S">>>> >>,
      << <<1, <<"s", "a">>, <<"S", SPACE, "R">>>>,
         <<2, DASH, <<"S", SPACE, "-", SPACE, "R">>>> >> }
\* the inputs of the long runs of SpecWrap
WrapInputs == { <<<<"s", "a">>, <<"S">>>>, <<None, STAR>> }

(***************************************************************************)
(* Actions: one per call on the builder.                                   *)
(***************************************************************************)
\* the parser and the grouper at rest
ParserIdle ==
    /\ content = <<>>
    /\ pc = "idle"
    /\ composition = Ok(<<>>)
    /\ rendered = <<>>
    /\ reparsed = Ok(<<>>)

GroupIdle ==
    /\ stream = <<>>
    /\ gpc = "idle"
    /\ grouped = Ok(<<>>)

LineIdle ==
    /\ input_line = <<>>
    /\ lpc = "idle"
    /\ line_matches = <<>>
    /\ line_tokens = <<>>
    /\ line_elements = Ok(<<>>)
    /\ line_beats = Ok(<<>>)

FileIdle ==
    /\ file_content = <<>>
    /\ fpc = "idle"
    /\ file_result = Ok(<<>>)

LoadIdle ==
    /\ sur_text = <<>>
    /\ spc = "idle"
    /\ generator = Ok(<<>>)

\* a builder right after CompositionBuilder(taal)
BuilderInit ==
    /\ taal \in TaalNames
    /\ builder = NewBuilder(taal)
    /\ formatted_lines = <<>>
    /\ lastOp = NoOp
    /\ calls = 0
    /\ before_add_beat = builder

ShowIdle ==
    unrendered = NewBuilder(taal)

EditorIdle ==
    /\ editor = [current_file |-> <<>>, current_section_index |-> 0,
                 current_beat_index |-> 0, modified |-> FALSE]
    /\ command = "none"
    /\ editor_raised = "none"

Init ==
    /\ BuilderInit
    /\ ParserIdle
    /\ GroupIdle
    /\ LineIdle
    /\ FileIdle
    /\ LoadIdle
    /\ ShowIdle
    /\ EditorIdle

Called(op) ==
    /\ calls' = calls + 1
    /\ lastOp' = op
    /\ UNCHANGED <<taal, besides_builder>>

AddBeat(lyrics, notes) ==
    /\ builder' = add_beat(builder, lyrics, notes)
    /\ before_add_beat' = builder
    /\ Called(Op("add_beat", lyrics, notes, 0, <<>>, <<>>))
    /\ UNCHANGED formatted_lines

AddEmptyBeats(target_beat) ==
    /\ builder' = add_empty_beats(builder, target_beat)
    /\ Called(Op("add_empty_beats", None, None, target_beat, <<>>, <<>>))
    /\ UNCHANGED <<formatted_lines, before_add_beat>>

AddLine(beats) ==
    /\ builder' = add_line(builder, beats)
    /\ Called(Op("add_line", None, None, 0, <<>>, beats))
    /\ UNCHANGED <<formatted_lines, before_add_beat>>

AddSectionHeader(header) ==
    /\ builder' = add_section_header(builder, header)
    /\ Called(Op("add_section_header", None, None, 0, header, <<>>))
    /\ UNCHANGED <<formatted_lines, before_add_beat>>

FinalizeLine ==
    /\ builder' = finalize_line(builder)
    /\ Called(Op("finalize_line", None, None, 0, <<>>, <<>>))
    /\ UNCHANGED <<formatted_lines, before_add_beat>>

GetFormattedComposition ==
    /\ builder' = finalize_line(builder)
    /\ formatted_lines' = get_formatted_composition(builder)
    /\ Called(Op("get_formatted_composition", None, None, 0, <<>>, <<>>))
    /\ UNCHANGED before_add_beat

DoAddBeat == \E l \in Lyrics, n \in Notes : calls < MaxCalls /\ AddBeat(l, n)
DoAddEmptyBeats == \E t \in 1..MaxTarget : calls < MaxCalls /\ AddEmptyBeats(t)
DoAddLine == \E beats \in LineInputs : calls < MaxCalls /\ AddLine(beats)
DoAddSectionHeader == \E h \in Headers : calls < MaxCalls /\ AddSectionHeader(h)
DoFinalizeLine == calls < MaxCalls /\ FinalizeLine
DoGetFormattedComposition == calls < MaxCalls /\ GetFormattedComposition

Next ==
    \/ DoAddBeat
    \/ DoAddEmptyBeats
    \/ DoAddLine
    \/ DoAddSectionHeader
    \/ DoFinalizeLine
    \/ DoGetFormattedComposition

Spec == Init /\ [][Next]_vars

\* a fresh builder fed by add_beat alone, for as long as MaxWrapCalls allows
WrapAddBeat == \E in \in WrapInputs : calls < MaxWrapCalls /\ AddBeat(in[1], in[2])

NextWrap == WrapAddBeat

SpecWrap == Init /\ [][NextWrap]_vars

(***************************************************************************)
(* Properties of the builder.                                              *)
(***************************************************************************)
Last(s) == s[Len(s)]

\* the entry recorded last: the end of the active row, or of the last
\* flushed row when the active row is empty
LastEntry(b) ==
    IF b.current_line # <<>> THEN Last(b.current_line)
    ELSE Last(Last(b.composition_lines))

Pair(entry) == <<entry[2], entry[3]>>

\* C4 (row wrap): on a fresh builder of row width M fed by add_beat alone,
\* after k calls there are exactly k div M flushed rows, each of exactly M
\* entries, current_beat is (k mod M) + 1, and call number M + 1 is recorded
\* with running index 1 as the first entry of a new row; M is 16 for teental.
RowWrap ==
    LET M == builder.max_beats
        k == calls
        rows == builder.composition_lines
    IN  /\ taal = "teental" => M = 16
        /\ Len(rows) = k \div M
        /\ \A r \in 1..Len(rows) : Len(rows[r]) = M
        /\ Len(builder.current_line) = k % M
        /\ builder.current_beat = (k % M) + 1
        /\ k > M =>
              LET second == IF Len(rows) >= 2 THEN rows[2] ELSE builder.current_line
              IN  second # <<>> /\ second[1][1] = 1

\* C4 witness: teental, the 17th add_beat has just been made
RowWrapWitness ==
    /\ taal = "teental"
    /\ calls = 17
    /\ lastOp.name = "add_beat"
    /\ Len(builder.composition_lines) = 1
    /\ Len(builder.composition_lines[1]) = 16
    /\ Len(builder.current_line) = 1
    /\ builder.current_line[1][1] = 1
    /\ builder.current_beat = 2

\* C5 (row width), as claimed: no flushed row and no active row ever holds
\* more than max_beats entries.
RowWidthEnforced ==
    /\ Len(builder.current_line) <= builder.max_beats
    /\ \A r \in 1..Len(builder.composition_lines) :
          Len(builder.composition_lines[r]) <= builder.max_beats

\* C6 (sustain expansion): an add_beat with note '*' made right after an
\* add_beat records the pair the earlier call recorded (for a first call with
\* another note, the normalised pair of its arguments), also when sustain
\* calls follow one another, and leaves last_note and last_lyric alone.
SustainExpansion ==
    [][ (/\ calls' = calls + 1
         /\ lastOp.name = "add_beat"
         /\ lastOp'.name = "add_beat"
         /\ lastOp'.notes = STAR)
        => /\ Pair(LastEntry(builder')) = Pair(LastEntry(builder))
           /\ lastOp.notes # STAR =>
                 Pair(LastEntry(builder')) =
                    <<dash_if_empty(lastOp.lyrics), dash_if_empty(lastOp.notes)>>
           /\ builder'.last_note = builder.last_note
           /\ builder'.last_lyric = builder.last_lyric ]_vars

\* C6 witness: add_beat("sa", "S") and then two sustain calls, the last with
\* a lyric of its own, all three recorded as ("sa", "S")
SustainExpansionWitness ==
    /\ lastOp.name = "add_beat"
    /\ lastOp.notes = STAR
    /\ lastOp.lyrics = <<"s", "a">>
    /\ Len(builder.current_line) = 3
    /\ \A i \in 1..3 : Pair(builder.current_line[i]) = <<<<"s", "a">>, <<"S">>>>
    /\ builder.last_note = <<"S">>

\* C7 (beat-jump): add_empty_beats(t) at current_beat = c appends exactly
\* max(0, t - c) entries, all silence, with running indices c .. t-1, leaves
\* current_beat = max(c, t) and, when c >= t, leaves the builder unchanged.
BeatJump ==
    [][ (calls' = calls + 1 /\ lastOp'.name = "add_empty_beats")
        => LET t == lastOp'.target
               c == builder.current_beat
               n == Max(0, t - c)
           IN  /\ builder'.current_line =
                     builder.current_line \o [i \in 1..n |-> <<c + i - 1, DASH, DASH>>]
               /\ builder'.current_beat = Max(c, t)
               /\ builder' = [builder EXCEPT !.current_line = builder'.current_line,
                                             !.current_beat = builder'.current_beat]
               /\ c >= t => builder' = builder ]_vars

\* C7 witness: add_empty_beats(5) made at current_beat = 2 after one real
\* beat has appended silence with the indices 2, 3, 4
BeatJumpWitness ==
    /\ lastOp.name = "add_empty_beats"
    /\ lastOp.target = 5
    /\ builder.current_beat = 5
    /\ Len(builder.current_line) = 4
    /\ builder.current_line[1] = <<1, <<"s", "a">>, <<"S">>>>
    /\ \A i \in 2..4 : builder.current_line[i] = <<i, DASH, DASH>>

\* C8 (header flush), as claimed: add_section_header flushes a pending
\* active row before it records its anchor, so right after it the active row
\* is empty and the anchor counts every row that holds an earlier beat.
HeaderFlushesActiveRow ==
    lastOp.name = "add_section_header" =>
        /\ builder.current_line = <<>>
        /\ Last(builder.section_headers)[1] = Len(builder.composition_lines)

\* the lines of a rendering, by their kind
IsHeaderLine(line) == StartsWith(line, "#")
IsBlankLine(line) == line = <<>>
IsRowLine(line) == StartsWith(line, "b")

\* the positions of the header lines of a rendering, in order
HeaderPositions(out) ==
    SelectSeq([p \in 1..Len(out) |-> p], LAMBDA p : IsHeaderLine(out[p]))

RowsBefore(out, p) == Cardinality({q \in 1..(p - 1) : IsRowLine(out[q])})

\* C9 (header rendering): get_formatted_composition emits every recorded
\* header exactly once, in insertion order, after exactly as many rows as
\* its anchor says (so before the row of that index, or after all rows), and
\* a blank line stands before a header exactly when a row line was the last
\* line emitted: never at the top and never between two headers.
HeaderRendering ==
    lastOp.name = "get_formatted_composition" =>
        LET out == formatted_lines
            hs  == builder.section_headers
            pos == HeaderPositions(out)
        IN  /\ Len(pos) = Len(hs)
            /\ \A k \in 1..Len(hs) :
                  /\ out[pos[k]] = hs[k][2]
                  /\ RowsBefore(out, pos[k]) = hs[k][1]
            /\ RowsBefore(out, Len(out) + 1) = Len(builder.composition_lines)
            /\ \A p \in 1..Len(out) :
                  /\ IsHeaderLine(out[p]) \/ IsBlankLine(out[p]) \/ IsRowLine(out[p])
                  /\ IsHeaderLine(out[p]) /\ p > 1 => ~IsRowLine(out[p - 1])
                  /\ IsBlankLine(out[p]) =>
                        /\ p > 1 /\ IsRowLine(out[p - 1])
                        /\ p < Len(out) /\ IsHeaderLine(out[p + 1])

\* C9 witness: a rendering with a header between two rows, after a blank line
HeaderRenderingWitness ==
    /\ lastOp.name = "get_formatted_composition"
    /\ Len(formatted_lines) = 4
    /\ IsRowLine(formatted_lines[1])
    /\ IsBlankLine(formatted_lines[2])
    /\ IsHeaderLine(formatted_lines[3])
    /\ IsRowLine(formatted_lines[4])
    /\ builder.section_headers[1][1] = 1

(***************************************************************************)
(* The data model (sur/models.py).                                         *)
(*                                                                         *)
(* A Note is [pitch, octave] with the pitch named by its NotePitch value;  *)
(* an Element is [lyrics, note, type]; a Beat is [elements, bracketed]; a  *)
(* Section is [title, beats].  The variant of a Note is never set.         *)
(***************************************************************************)
PitchLetters == {"S", "R", "G", "M", "P", "D", "N"}
NotePitchValues == PitchLetters \cup {"-", "*"}

\* Element.note = None
NoNote == [pitch |-> "None", octave |-> 0]

Note(pitch, octave) == [pitch |-> pitch, octave |-> octave]
Element(lyrics, note, type) == [lyrics |-> lyrics, note |-> note, type |-> type]
Beat(elems, bracketed) == [elements |-> elems, bracketed |-> bracketed]
Section(title, bs) == [title |-> title, beats |-> bs]

\* c * n of Python
Repeat(c, n) == [k \in 1..n |-> c]

\* Note.__str__
note_str(note) ==
    IF note.pitch \in {"-", "*"} THEN <<note.pitch>>
    ELSE IF note.octave > 0 THEN <<note.pitch>> \o Repeat("'", note.octave)
    ELSE IF note.octave < 0 THEN <<note.pitch>> \o Repeat(",", -note.octave)
    ELSE <<note.pitch>>

\* the truth value Python gives Element.lyrics and Element.note
HasLyrics(e) == e.lyrics # None /\ e.lyrics # <<>>
HasNote(e) == e.note # NoNote

\* Element.format_lyrics; None is returned for missing or empty lyrics
format_lyrics(e, force_quotes) ==
    IF ~HasLyrics(e) THEN None
    ELSE IF force_quotes \/ Contains(e.lyrics, SPACE)
    THEN <<"\"">> \o e.lyrics \o <<"\"">>
    ELSE e.lyrics

\* Element.__str__
element_str(e) ==
    IF HasLyrics(e) /\ HasNote(e)
    THEN format_lyrics(e, TRUE) \o <<":">> \o note_str(e.note)
    ELSE IF HasLyrics(e) THEN format_lyrics(e, FALSE)
    ELSE IF HasNote(e) THEN note_str(e.note)
    ELSE <<>>

\* Beat.__str__
beat_str(b) ==
    IF b.elements = <<>> THEN <<>>
    ELSE IF Len(b.elements) = 1 THEN element_str(b.elements[1])
    ELSE LET texts == SelectSeq([k \in 1..Len(b.elements) |-> element_str(b.elements[k])],
                                LAMBDA t : t # <<>>)
             formatted == Join(texts, IF b.bracketed THEN <<SPACE>> ELSE <<>>)
         IN  IF b.bracketed THEN <<"[">> \o formatted \o <<"]">> ELSE formatted

\* Section.__str__
section_str(sec) ==
    <<"#">> \o sec.title \o <<"\n">>
        \o Join([k \in 1..Len(sec.beats) |-> beat_str(sec.beats[k])], <<SPACE>>)

\* SURFile.__str__: the sections' texts, one per line group
file_str(sections) ==
    Join([k \in 1..Len(sections) |-> section_str(sections[k])], <<"\n">>)

(***************************************************************************)
(* SURParser (sur/parser.py): the scanner.                                 *)
(***************************************************************************)
Letters ==
    {"a", "b", "c", "d", "e", "f", "g", "h", "i", "j", "k", "l", "m",
     "n", "o", "p", "q", "r", "s", "t", "u", "v", "w", "x", "y", "z",
     "A", "B", "C", "D", "E", "F", "G", "H", "I", "J", "K", "L", "M",
     "N", "O", "P", "Q", "R", "S", "T", "U", "V", "W", "X", "Y", "Z"}
Digits == {"0", "1", "2", "3", "4", "5", "6", "7", "8", "9"}
QUOTE == "\""

Token(type, value) == [type |-> type, value |-> value]

\* the length of the longest run of characters of set in s from the 0-based
\* offset i on
RECURSIVE RunLen(_, _, _)
RunLen(s, i, set) ==
    IF i < Len(s) /\ s[i + 1] \in set THEN 1 + RunLen(s, i + 1, set) ELSE 0

\* the same for the characters other than c
RECURSIVE RunLenNot(_, _, _)
RunLenNot(s, i, c) ==
    IF i < Len(s) /\ s[i + 1] # c THEN 1 + RunLenNot(s, i + 1, c) ELSE 0

\* The length of the match of each alternative of _token_pattern at the
\* offset i < Len(s), 0 when it does not match there.
\* _quoted_lyrics = "[^"]*"
quoted_len(s, i) ==
    IF s[i + 1] = QUOTE
    THEN LET n == RunLenNot(s, i + 1, QUOTE)
         IN  IF i + 1 + n < Len(s) THEN n + 2 ELSE 0
    ELSE 0

\* _note_pattern = (?:\.|,)*[SRGMPDN](?:'|,)*|-|\*
note_len(s, i) ==
    LET d == RunLen(s, i, {".", ","})
    IN  IF i + d < Len(s) /\ s[i + d + 1] \in PitchLetters
        THEN d + 1 + RunLen(s, i + d + 1, {"'", ","})
        ELSE IF s[i + 1] \in {"-", "*"} THEN 1 ELSE 0

\* _symbols = [\[\]:]
symbol_len(s, i) == IF s[i + 1] \in {"[", "]", ":"} THEN 1 ELSE 0

\* _separator = \s+
separator_len(s, i) == RunLen(s, i, Whitespace)

\* _mixed_text = [a-zA-Z][a-zA-Z0-9]*
mixed_len(s, i) ==
    IF s[i + 1] \in Letters THEN 1 + RunLen(s, i + 1, Letters \cup Digits) ELSE 0

\* token_choice with the bare word tried before the note
token_choice_word_first(s, i, q, n, y, w, m) ==
    IF q > 0 THEN <<q, <<Token("LYRICS", Slice(s, i + 1, i + q - 1))>>>>
    ELSE IF m > 0 THEN <<m, <<Token("LYRICS", Slice(s, i, i + m))>>>>
    ELSE IF n > 0 THEN <<n, <<Token("NOTE", Slice(s, i, i + n))>>>>
    ELSE IF y > 0
    THEN <<1, <<Token(CASE s[i + 1] = "[" -> "OPEN_BRACKET"
                        [] s[i + 1] = "]" -> "CLOSE_BRACKET"
                        [] OTHER -> "COLON",
                      <<s[i + 1]>>)>>>>
    ELSE IF w > 0 THEN <<w, <<Token("SEPARATOR", Slice(s, i, i + w))>>>>
    ELSE <<1, <<>>>>

\* one match of _token_regex at the offset i, as <<length, tokens>>, given
\* the lengths q, n, y, w, m the five alternatives match there: they are
\* tried in the order of _token_pattern, and a character none of them
\* matches is passed over
token_choice(s, i, q, n, y, w, m) ==
    IF q > 0 THEN <<q, <<Token("LYRICS", Slice(s, i + 1, i + q - 1))>>>>
    ELSE IF n > 0 THEN <<n, <<Token("NOTE", Slice(s, i, i + n))>>>>
    ELSE IF y > 0
    THEN <<1, <<Token(CASE s[i + 1] = "[" -> "OPEN_BRACKET"
                        [] s[i + 1] = "]" -> "CLOSE_BRACKET"
                        [] OTHER -> "COLON",
                      <<s[i + 1]>>)>>>>
    ELSE IF w > 0 THEN <<w, <<Token("SEPARATOR", Slice(s, i, i + w))>>>>
    ELSE IF m > 0 THEN <<m, <<Token("LYRICS", Slice(s, i, i + m))>>>>
    ELSE <<1, <<>>>>

token_at(s, i) ==
    token_choice(s, i, quoted_len(s, i), note_len(s, i), symbol_len(s, i),
                 separator_len(s, i), mixed_len(s, i))

\* _tokenize: the matches of finditer from the offset i on
RECURSIVE tokenize_from(_, _)
tokenize_from(s, i) ==
    IF i >= Len(s) THEN <<>>
    ELSE LET m == token_at(s, i) IN m[2] \o tokenize_from(s, i + m[1])

tokenize(s) == tokenize_from(s, 0)

(***************************************************************************)
(* SURParser: notes and elements.                                          *)
(***************************************************************************)
\* text without its trailing run of c, as <<characters dropped, rest>>
RECURSIVE strip_trailing(_, _)
strip_trailing(t, c) ==
    IF t # <<>> /\ t[Len(t)] = c
    THEN LET r == strip_trailing(SubSeq(t, 1, Len(t) - 1), c) IN <<r[1] + 1, r[2]>>
    ELSE <<0, t>>

\* _parse_single_note: the trailing ' are counted up, then the trailing , are
\* counted down, and what is left has to be a NotePitch value
parse_single_note(t) ==
    IF t = <<>> THEN Ok(NoNote)
    ELSE IF t = <<"-">> THEN Ok(Note("-", 0))
    ELSE IF t = <<"*">> THEN Ok(Note("*", 0))
    ELSE LET up   == strip_trailing(t, "'")
             down == strip_trailing(up[2], ",")
             rest == down[2]
         IN  IF Len(rest) = 1 /\ rest[1] \in NotePitchValues
             THEN Ok(Note(rest[1], up[1] - down[1]))
             ELSE Raise("ValueError")

\* one turn of the loop of _tokens_to_elements at the token i (0-based):
\* <<the elements appended, the next i>>
element_at(tokens, i) ==
    CASE tokens[i + 1].type = "SEPARATOR" ->
           Ok(<<<<Element(None, NoNote, "SEPARATOR")>>, i + 1>>)
      [] tokens[i + 1].type = "OPEN_BRACKET" ->
           Ok(<<<<Element(None, NoNote, "OPEN_BRACKET")>>, i + 1>>)
      [] tokens[i + 1].type = "CLOSE_BRACKET" ->
           Ok(<<<<Element(None, NoNote, "CLOSE_BRACKET")>>, i + 1>>)
      [] tokens[i + 1].type = "NOTE" ->
           AndThen(parse_single_note(tokens[i + 1].value),
                   LAMBDA n : Ok(<<<<Element(None, n, "NORMAL")>>, i + 1>>))
      [] tokens[i + 1].type = "LYRICS" ->
           IF /\ i + 2 < Len(tokens)
              /\ tokens[i + 2].type = "COLON"
              /\ tokens[i + 3].type = "NOTE"
           THEN AndThen(parse_single_note(tokens[i + 3].value),
                        LAMBDA n : Ok(<<<<Element(tokens[i + 1].value, n, "NORMAL")>>,
                                        i + 3>>))
           ELSE Ok(<<<<Element(tokens[i + 1].value, NoNote, "NORMAL")>>, i + 1>>)
      [] OTHER -> Ok(<<<<>>, i + 1>>)

\* _tokens_to_elements from the token i (0-based) on
RECURSIVE tokens_to_elements_from(_, _)
tokens_to_elements_from(tokens, i) ==
    IF i >= Len(tokens) THEN Ok(<<>>)
    ELSE AndThen(element_at(tokens, i),
                 LAMBDA step :
                     AndThen(tokens_to_elements_from(tokens, step[2]),
                             LAMBDA rest : Ok(step[1] \o rest)))

tokens_to_elements(tokens) == tokens_to_elements_from(tokens, 0)

(***************************************************************************)
(* SURParser: the grouper.                                                 *)
(***************************************************************************)
\* the locals of _elements_to_beats before its loop
GroupStart ==
    [beats |-> <<>>, current_elements |-> <<>>, bracket_elements |-> <<>>,
     in_bracket |-> FALSE, last_was_separator |-> TRUE]

\* create_beat: the beats with the beat of elems added, if elems is not empty
create_beat(bs, elems, bracketed) ==
    IF elems # <<>>
    THEN Append(bs, Beat(SelectSeq(elems, LAMBDA e : e.type = "NORMAL"), bracketed))
    ELSE bs

\* one turn of the loop of _elements_to_beats, with a separator closing the
\* beat inside brackets as it does outside
group_step_split(g, element) ==
    CASE element.type = "SEPARATOR" ->
           IF g.in_bracket
           THEN [g EXCEPT !.beats = create_beat(g.beats, g.bracket_elements, TRUE),
                          !.bracket_elements = <<>>,
                          !.last_was_separator = TRUE]
           ELSE [g EXCEPT !.beats = create_beat(g.beats, g.current_elements, FALSE),
                          !.current_elements = <<>>,
                          !.last_was_separator = TRUE]
      [] element.type = "OPEN_BRACKET" ->
           [g EXCEPT !.beats = create_beat(g.beats, g.current_elements, FALSE),
                     !.current_elements = <<>>,
                     !.in_bracket = TRUE,
                     !.bracket_elements = <<>>]
      [] element.type = "CLOSE_BRACKET" ->
           [g EXCEPT !.in_bracket = FALSE,
                     !.beats = create_beat(g.beats, g.bracket_elements, TRUE),
                     !.bracket_elements = <<>>,
                     !.last_was_separator = TRUE]
      [] OTHER ->
           IF g.in_bracket
           THEN [g EXCEPT !.bracket_elements = Append(@, element),
                          !.last_was_separator = FALSE]
           ELSE [g EXCEPT !.current_elements = Append(@, element),
                          !.last_was_separator = FALSE]

\* one turn of the loop of _elements_to_beats
group_step(g, element) ==
    CASE element.type = "SEPARATOR" ->
           IF ~g.in_bracket /\ g.current_elements # <<>>
           THEN [g EXCEPT !.beats = create_beat(g.beats, g.current_elements, FALSE),
                          !.current_elements = <<>>,
                          !.last_was_separator = TRUE]
           ELSE [g EXCEPT !.last_was_separator = TRUE]
      [] element.type = "OPEN_BRACKET" ->
           [g EXCEPT !.beats = create_beat(g.beats, g.current_elements, FALSE),
                     !.current_elements = <<>>,
                     !.in_bracket = TRUE,
                     !.bracket_elements = <<>>]
      [] element.type = "CLOSE_BRACKET" ->
           [g EXCEPT !.in_bracket = FALSE,
                     !.beats = create_beat(g.beats, g.bracket_elements, TRUE),
                     !.bracket_elements = <<>>,
                     !.last_was_separator = TRUE]
      [] OTHER ->
           IF g.in_bracket
           THEN [g EXCEPT !.bracket_elements = Append(@, element),
                          !.last_was_separator = FALSE]
           ELSE [g EXCEPT !.current_elements = Append(@, element),
                          !.last_was_separator = FALSE]

RECURSIVE group_loop(_, _)
group_loop(g, elems) ==
    IF elems = <<>> THEN g ELSE group_loop(group_step(g, Head(elems)), Tail(elems))

\* _elements_to_beats: the loop, then the beat of what is left outside
\* brackets; nothing in it raises
elements_to_beats(elems) ==
    LET g == group_loop(GroupStart, elems)
    IN  Ok(create_beat(g.beats, g.current_elements, FALSE))

\* parse_line
parse_line(line) ==
    AndThen(tokens_to_elements(tokenize(line)), LAMBDA es : elements_to_beats(es))

(***************************************************************************)
(* SURParser: sections.                                                    *)
(***************************************************************************)
\* str.strip()
RECURSIVE lstrip(_)
lstrip(s) == IF s # <<>> /\ s[1] \in Whitespace THEN lstrip(Tail(s)) ELSE s

RECURSIVE rstrip(_)
rstrip(s) ==
    IF s # <<>> /\ s[Len(s)] \in Whitespace THEN rstrip(SubSeq(s, 1, Len(s) - 1)) ELSE s

strip(s) == rstrip(lstrip(s))

\* str.splitlines() for texts whose only line break is "\n"
RECURSIVE splitlines(_)
splitlines(s) ==
    IF s = <<>> THEN <<>>
    ELSE LET n == RunLenNot(s, 0, "\n")
         IN  <<Slice(s, 0, n)>> \o
             (IF n >= Len(s) THEN <<>> ELSE splitlines(Slice(s, n + 1, Len(s))))

\* the loop over lines[1:] of _parse_section, each line stripped first
RECURSIVE section_beats(_, _)
section_line(line, rest, bs) ==
    IF StartsWith(line, "#") THEN Ok(bs)
    ELSE IF line = <<>> THEN section_beats(rest, bs)
    ELSE AndThen(parse_line(line), LAMBDA more : section_beats(rest, bs \o more))

section_beats(lines, bs) ==
    IF lines = <<>> THEN Ok(bs) ELSE section_line(strip(Head(lines)), Tail(lines), bs)

\* _parse_section: the one section as <<section>>, or <<>> for None
parse_section(lines) ==
    IF lines = <<>> \/ ~StartsWith(lines[1], "#") THEN Ok(<<>>)
    ELSE AndThen(section_beats(Tail(lines), <<>>),
                 LAMBDA bs : Ok(<<Section(strip(Tail(lines[1])), bs)>>))

\* the loop of parse over the lines, then the final section
RECURSIVE parse_lines(_, _, _)
parse_lines(lines, current_section_lines, comp) ==
    IF lines = <<>>
    THEN IF current_section_lines # <<>>
         THEN AndThen(parse_section(current_section_lines),
                      LAMBDA sec : Ok(comp \o sec))
         ELSE Ok(comp)
    ELSE IF StartsWith(Head(lines), "#") /\ current_section_lines # <<>>
         THEN AndThen(parse_section(current_section_lines),
                      LAMBDA sec : parse_lines(Tail(lines), <<Head(lines)>>, comp \o sec))
         ELSE parse_lines(Tail(lines), Append(current_section_lines, Head(lines)), comp)

\* SURParser.parse
parse(text) == parse_lines(splitlines(text), <<>>, <<>>)

(***************************************************************************)
(* Parsing a composition text, rendering its sections, parsing the text.   *)
(***************************************************************************)
SeqsUpTo(S, n) == UNION {[1..k -> S] : k \in 0..n}

\* the pieces a content line is made of
Lexemes ==
    { <<"S">>, <<"R">>, <<"'">>, <<",">>, <<".">>, <<"-">>, <<"s", "a">>,
      <<QUOTE>>, <<"[">>, <<"]">>, <<":">>, <<SPACE>> }

\* whole lines: titles, content, a blank line, an indented title, a comment
Lines ==
    { <<"#", "A">>, <<"#">>, <<SPACE, "#", "B">>, <<>>,
      <<"S", SPACE, "R">>, <<"[", "s", "a", SPACE, "S", "R", "]">>,
      <<"/", "/", "S">> }

\* the composition texts: a title and one content line of up to MaxLexemes
\* lexemes, or up to MaxLines whole lines
Texts ==
    { <<"#", "t", "\n">> \o Join(ls, <<>>) : ls \in SeqsUpTo(Lexemes, MaxLexemes) }
        \cup { Join(ls, <<"\n">>) : ls \in SeqsUpTo(Lines, MaxLines) }

\* a builder that is not used
BuilderIdle ==
    /\ taal = "teental"
    /\ builder = NewBuilder(taal)
    /\ formatted_lines = <<>>
    /\ lastOp = NoOp
    /\ calls = 0
    /\ before_add_beat = builder

InitParse ==
    /\ BuilderIdle
    /\ EditorIdle
    /\ ShowIdle
    /\ GroupIdle
    /\ LineIdle
    /\ FileIdle
    /\ LoadIdle
    /\ content \in Texts
    /\ pc = "input"
    /\ composition = Ok(<<>>)
    /\ rendered = <<>>
    /\ reparsed = Ok(<<>>)

Parse ==
    /\ pc = "input"
    /\ composition' = parse(content)
    /\ pc' = "parsed"
    /\ UNCHANGED <<content, rendered, reparsed, besides_parse>>

Render ==
    /\ pc = "parsed"
    /\ composition.err = "none"
    /\ rendered' = file_str(composition.val)
    /\ pc' = "rendered"
    /\ UNCHANGED <<content, composition, reparsed, besides_parse>>

Reparse ==
    /\ pc = "rendered"
    /\ reparsed' = parse(rendered)
    /\ pc' = "reparsed"
    /\ UNCHANGED <<content, composition, rendered, besides_parse>>

NextParse == Parse \/ Render \/ Reparse

SpecParse == InitParse /\ [][NextParse]_vars

\* C1 (round trip), as claimed: parsing the text of the sections parse
\* returned yields the same sections: titles, beats, bracketed flags and the
\* lyrics, pitch and octave of every element.
RoundTrip == pc = "reparsed" => reparsed = composition

\* C2 (bracket fidelity), as claimed: a bracketed beat of one or more elements
\* renders as its elements' texts joined by single spaces inside '[' and ']',
\* an unbracketed beat of two or more as the texts with nothing between.
BracketFidelity ==
    pc = "parsed" /\ composition.err = "none" =>
        \A i \in 1..Len(composition.val) :
            \A j \in 1..Len(composition.val[i].beats) :
                LET b == composition.val[i].beats[j]
                    texts == [k \in 1..Len(b.elements) |-> element_str(b.elements[k])]
                IN  /\ b.elements # <<>> /\ b.bracketed =>
                          beat_str(b) = <<"[">> \o Join(texts, <<SPACE>>) \o <<"]">>
                    /\ Len(b.elements) > 1 /\ ~b.bracketed =>
                          beat_str(b) = Join(texts, <<>>)

(***************************************************************************)
(* Grouping an element stream.                                             *)
(***************************************************************************)
SEP == Element(None, NoNote, "SEPARATOR")
OPEN == Element(None, NoNote, "OPEN_BRACKET")
CLOSE == Element(None, NoNote, "CLOSE_BRACKET")
NoteElement(p) == Element(None, Note(p, 0), "NORMAL")
LyricElement(l) == Element(l, NoNote, "NORMAL")

ElementKinds == {SEP, OPEN, CLOSE, NoteElement("S"), LyricElement(<<"s", "a">>)}

\* the elements of the lines  [sa SRG] ,  S R G  and  [sa S
ExampleBracketed ==
    <<OPEN, LyricElement(<<"s", "a">>), SEP,
      NoteElement("S"), NoteElement("R"), NoteElement("G"), CLOSE>>
ExampleSpaced ==
    <<NoteElement("S"), SEP, NoteElement("R"), SEP, NoteElement("G")>>
ExampleUnterminated ==
    <<OPEN, LyricElement(<<"s", "a">>), SEP, NoteElement("S")>>

Streams ==
    SeqsUpTo(ElementKinds, MaxElems)
        \cup {ExampleBracketed, ExampleSpaced, ExampleUnterminated}

InitGroup ==
    /\ BuilderIdle
    /\ EditorIdle
    /\ ShowIdle
    /\ ParserIdle
    /\ LineIdle
    /\ FileIdle
    /\ LoadIdle
    /\ stream \in Streams
    /\ gpc = "input"
    /\ grouped = Ok(<<>>)

Group ==
    /\ gpc = "input"
    /\ grouped' = elements_to_beats(stream)
    /\ gpc' = "grouped"
    /\ UNCHANGED <<stream, besides_group>>

NextGroup == Group

SpecGroup == InitGroup /\ [][NextGroup]_vars

\* whether the first p elements of es end inside a bracket
RECURSIVE Inside(_, _)
Inside(es, p) ==
    /\ p > 0
    /\ \/ es[p].type = "OPEN_BRACKET"
       \/ es[p].type # "CLOSE_BRACKET" /\ Inside(es, p - 1)

\* a ']' outside a bracket, or the end of the stream inside one
Unbalanced(es) ==
    \/ \E p \in 1..Len(es) : es[p].type = "CLOSE_BRACKET" /\ ~Inside(es, p - 1)
    \/ Inside(es, Len(es))

Nested(es) == \E p \in 1..Len(es) : es[p].type = "OPEN_BRACKET" /\ Inside(es, p - 1)

\* C3 (unbalanced brackets), as claimed: grouping a stream with a ']' outside
\* a bracket, or one that ends inside a bracket, fails with
\* MalformedBeatError.
UnbalancedRejected ==
    gpc = "grouped" /\ Unbalanced(stream) => grouped.err = "MalformedBeatError"

NormalPositions(es) ==
    SelectSeq([p \in 1..Len(es) |-> p], LAMBDA p : es[p].type = "NORMAL")

\* two normal elements with no normal element between them belong together:
\* inside one bracket pair whatever separates them, outside only when adjacent
SameBeat(es, p, q) ==
    IF Inside(es, p) /\ Inside(es, q)
    THEN \A r \in (p + 1)..(q - 1) : es[r].type = "SEPARATOR"
    ELSE ~Inside(es, p) /\ ~Inside(es, q) /\ q = p + 1

RECURSIVE Concat(_)
Concat(seqs) == IF seqs = <<>> THEN <<>> ELSE Head(seqs) \o Concat(Tail(seqs))

\* the index of the beat that holds the k-th element of the beats' elements
RECURSIVE BeatOf(_, _)
BeatOf(bs, k) ==
    IF k <= Len(Head(bs).elements) THEN 1
    ELSE 1 + BeatOf(Tail(bs), k - Len(Head(bs).elements))

\* C10 (bracket scope): for a stream with balanced, non-nested brackets the
\* beats hold the normal elements in order, none is empty, the elements
\* between '[' and ']' are exactly one bracketed beat whatever whitespace
\* lies between them, and outside brackets each maximal run of adjacent
\* normal elements is exactly one unbracketed beat; [sa SRG] is one beat of
\* four elements and S R G three beats of one.
BracketScope ==
    gpc = "grouped" /\ ~Unbalanced(stream) /\ ~Nested(stream) =>
        LET np == NormalPositions(stream)
            bs == grouped.val
            flat == Concat([j \in 1..Len(bs) |-> bs[j].elements])
        IN  /\ grouped.err = "none"
            /\ flat = [k \in 1..Len(np) |-> stream[np[k]]]
            /\ \A j \in 1..Len(bs) : bs[j].elements # <<>>
            /\ \A k \in 1..Len(np) : bs[BeatOf(bs, k)].bracketed = Inside(stream, np[k])
            /\ \A k \in 1..(Len(np) - 1) :
                  BeatOf(bs, k + 1) =
                     BeatOf(bs, k) + (IF SameBeat(stream, np[k], np[k + 1]) THEN 0 ELSE 1)
            /\ stream = ExampleSpaced =>
                  Len(bs) = 3 /\ \A j \in 1..3 : Len(bs[j].elements) = 1

\* C10 witness: the elements of [sa SRG] grouped into one bracketed beat of
\* four elements
BracketScopeWitness ==
    /\ gpc = "grouped"
    /\ stream = ExampleBracketed
    /\ Len(grouped.val) = 1
    /\ Len(grouped.val[1].elements) = 4
    /\ grouped.val[1].bracketed

(***************************************************************************)
(* Parsing one line: _tokenize, _tokens_to_elements, _elements_to_beats.   *)
(***************************************************************************)
\* the matches finditer yields from the 0-based offset i on, each with the
\* offset it starts at, its length and the token appended for it (none for
\* a character no alternative matches, which finditer passes over)
RECURSIVE matches_from(_, _)
matches_from(s, i) ==
    IF i >= Len(s) THEN <<>>
    ELSE LET m == token_at(s, i)
         IN  <<[start |-> i, len |-> m[1], tokens |-> m[2]]>>
                 \o matches_from(s, i + m[1])

\* the characters the lines are made of
LineChars == {"S", "a", "1", QUOTE, "'", ",", SPACE, "[", "]", ":"}

LineTexts == SeqsUpTo(LineChars, MaxLineLen)

InitLine ==
    /\ BuilderIdle
    /\ EditorIdle
    /\ ShowIdle
    /\ ParserIdle
    /\ GroupIdle
    /\ FileIdle
    /\ LoadIdle
    /\ input_line \in LineTexts
    /\ lpc = "input"
    /\ line_matches = <<>>
    /\ line_tokens = <<>>
    /\ line_elements = Ok(<<>>)
    /\ line_beats = Ok(<<>>)

\* parse_line, line 152
Tokenize ==
    /\ lpc = "input"
    /\ line_tokens' = tokenize(input_line)
    /\ line_matches' = matches_from(input_line, 0)
    /\ lpc' = "tokens"
    /\ UNCHANGED <<input_line, line_elements, line_beats, besides_line>>

\* parse_line, line 153
Assemble ==
    /\ lpc = "tokens"
    /\ line_elements' = tokens_to_elements(line_tokens)
    /\ line_beats' = IF line_elements'.err # "none" THEN line_elements' ELSE line_beats
    /\ lpc' = IF line_elements'.err # "none" THEN "raised" ELSE "elements"
    /\ UNCHANGED <<input_line, line_tokens, line_matches, besides_line>>

\* parse_line, line 154
GroupLine ==
    /\ lpc = "elements"
    /\ line_beats' = elements_to_beats(line_elements.val)
    /\ lpc' = "beats"
    /\ UNCHANGED <<input_line, line_tokens, line_matches, line_elements,
                   besides_line>>

NextLine == Tokenize \/ Assemble \/ GroupLine

SpecLine == InitLine /\ [][NextLine]_vars

\* the number of quote characters among the first n characters of s
RECURSIVE QuotesBefore(_, _)
QuotesBefore(s, n) ==
    IF n = 0 THEN 0 ELSE QuotesBefore(s, n - 1) + (IF s[n] = QUOTE THEN 1 ELSE 0)

\* the character p of s stands between an opening quote and its closing one
Quoted(s, p) ==
    /\ s[p] # QUOTE
    /\ QuotesBefore(s, p - 1) % 2 = 1
    /\ \E q \in (p + 1)..Len(s) : s[q] = QUOTE

\* the character p of s is an alphabetic run of exactly one pitch letter
LonePitchLetter(s, p) ==
    /\ s[p] \in PitchLetters
    /\ p > 1 => s[p - 1] \notin Letters
    /\ p < Len(s) => s[p + 1] \notin Letters

\* the character p of s follows, through digits alone, a letter that is not
\* a pitch letter: it continues the bare word that letter begins
JoinedToWord(s, p) ==
    /\ p > 1
    /\ s[p - 1] \in Digits
    /\ \E q \in 1..(p - 1) :
          /\ s[q] \in Letters \ PitchLetters
          /\ \A r \in q..(p - 1) : s[r] \in Letters \cup Digits

\* the types of the tokens of the match that covers the character p
TypesAt(ms, p) ==
    LET m == CHOOSE m \in {ms[k] : k \in 1..Len(ms)} : m.start < p /\ p <= m.start + m.len
    IN  [k \in 1..Len(m.tokens) |-> m.tokens[k].type]

\* C11 (scanner priority), as claimed: an unquoted alphabetic run of exactly
\* one pitch letter scans as a NOTE token, whatever surrounds it.
LonePitchLetterIsNote ==
    lpc # "input" =>
        \A p \in 1..Len(input_line) :
            LonePitchLetter(input_line, p) /\ ~Quoted(input_line, p) =>
                TypesAt(line_matches, p) = <<"NOTE">>

\* C11 (scanner priority), amended: an unquoted alphabetic run of exactly one
\* pitch letter scans as a NOTE token unless digits join it to an earlier
\* letter that is not a pitch letter, and then it is part of the LYRICS token
\* of that bare word; the tokens returned are those of the matches, in order.
ScannerPriority ==
    lpc # "input" =>
        /\ line_tokens = Concat([k \in 1..Len(line_matches) |-> line_matches[k].tokens])
        /\ \A p \in 1..Len(input_line) :
              LonePitchLetter(input_line, p) /\ ~Quoted(input_line, p) =>
                  TypesAt(line_matches, p) =
                      IF JoinedToWord(input_line, p) THEN <<"LYRICS">> ELSE <<"NOTE">>

\* C11 witness: in the line  a S'  the S is scanned as the NOTE token S'
ScannerPriorityWitness ==
    /\ lpc = "tokens"
    /\ input_line = <<"a", SPACE, "S", "'">>
    /\ line_tokens = <<Token("LYRICS", <<"a">>), Token("SEPARATOR", <<SPACE>>),
                       Token("NOTE", <<"S", "'">>)>>

\* C12 (atomicity), as claimed: every element of every beat parse_line returns
\* has lyrics, or a note, or both; lyrics is what the data model itself takes
\* for lyrics (Element.__str__ and format_lyrics: not None and not empty).
Atomicity ==
    lpc = "beats" /\ line_beats.err = "none" =>
        \A j \in 1..Len(line_beats.val) :
            \A k \in 1..Len(line_beats.val[j].elements) :
                \/ HasLyrics(line_beats.val[j].elements[k])
                \/ HasNote(line_beats.val[j].elements[k])

(***************************************************************************)
(* SURParser: files.                                                       *)
(***************************************************************************)
\* s.split(c) for a one-character c
RECURSIVE Split(_, _)
Split(s, c) ==
    LET n == RunLenNot(s, 0, c)
    IN  IF n >= Len(s) THEN <<s>>
        ELSE <<Slice(s, 0, n)>> \o Split(Slice(s, n + 1, Len(s)), c)

\* s.find(pat, i): the 0-based offset of the first pat in s from i on, or -1
RECURSIVE Find(_, _, _)
Find(s, pat, i) ==
    IF i + Len(pat) > Len(s) THEN -1
    ELSE IF OccursAt(s, pat, i) THEN i
    ELSE Find(s, pat, i + 1)

\* s.strip('"')
RECURSIVE strip_quotes(_)
strip_quotes(s) ==
    IF s # <<>> /\ s[1] = QUOTE THEN strip_quotes(Tail(s))
    ELSE IF s # <<>> /\ s[Len(s)] = QUOTE THEN strip_quotes(SubSeq(s, 1, Len(s) - 1))
    ELSE s

\* d[k] = v for a dict kept as the sequence of its <<key, value>> items
DictSet(d, k, v) ==
    IF \E i \in 1..Len(d) : d[i][1] = k
    THEN [i \in 1..Len(d) |-> IF d[i][1] = k THEN <<k, v>> ELSE d[i]]
    ELSE Append(d, <<k, v>>)

\* the loop of _parse_config and of _parse_scale over the lines: a line that
\* holds mark and is no comment is split at its first mark
RECURSIVE mapping_lines(_, _, _)
mapping_entry(line, mark, d) ==
    IF Find(line, mark, 0) >= 0 /\ ~OccursAt(strip(line), <<"/", "/">>, 0)
    THEN DictSet(d, strip(Slice(line, 0, Find(line, mark, 0))),
                 IF mark = <<":">>
                 THEN strip_quotes(strip(Slice(line, Find(line, mark, 0) + 1, Len(line))))
                 ELSE strip(Slice(line, Find(line, mark, 0) + Len(mark), Len(line))))
    ELSE d

mapping_lines(lines, mark, d) ==
    IF lines = <<>> THEN d
    ELSE mapping_lines(Tail(lines), mark, mapping_entry(Head(lines), mark, d))

parse_config(config_section) ==
    mapping_lines(Split(strip(config_section), "\n"), <<":">>, <<>>)

parse_scale(scale_section) ==
    mapping_lines(Split(strip(scale_section), "\n"), <<"-", ">">>, <<>>)

SURFile(metadata, scale, comp) ==
    [metadata |-> metadata, scale |-> scale, composition |-> comp]

\* parse_file: the blocks are taken by index, so a text of fewer than three
\* blocks ends in the IndexError of sections[1] or sections[2]
parse_file(text) ==
    IF Len(Split(text, "@")) < 3 THEN Raise("IndexError")
    ELSE AndThen(parse(Split(text, "@")[3]),
                 LAMBDA comp : Ok(SURFile(parse_config(Split(text, "@")[1]),
                                          parse_scale(Split(text, "@")[2]),
                                          comp)))

\* the blocks the files are made of: an empty one, metadata, a comment, a
\* scale entry, a section, and a section with a note that has no pitch
FileBlocks ==
    { <<>>,
      <<"n", ":", QUOTE, "x", QUOTE, "\n">>,
      <<"/", "/", "n", ":", "y", "\n">>,
      <<"S", "-", ">", "S", "a", "\n">>,
      <<"#", "A", "\n", "S", "\n">>,
      <<"#", "A", "\n", "-", "'", "\n">> }

FileTexts == { Join(bs, <<"@">>) : bs \in SeqsUpTo(FileBlocks, MaxBlocks) }

InitFile ==
    /\ BuilderIdle
    /\ EditorIdle
    /\ ShowIdle
    /\ ParserIdle
    /\ GroupIdle
    /\ LineIdle
    /\ LoadIdle
    /\ file_content \in FileTexts
    /\ fpc = "input"
    /\ file_result = Ok(<<>>)

ParseFile ==
    /\ fpc = "input"
    /\ file_result' = parse_file(file_content)
    /\ fpc' = "done"
    /\ UNCHANGED <<file_content, besides_file>>

NextFile == ParseFile

SpecFile == InitFile /\ [][NextFile]_vars

\* C13 (three blocks), as claimed: a text that splits into fewer than three
\* blocks fails with MalformedFileError, a text of three blocks does not.
FewerThanThreeBlocksRejected ==
    fpc = "done" =>
        /\ Len(Split(file_content, "@")) < 3 => file_result.err = "MalformedFileError"
        /\ Len(Split(file_content, "@")) = 3 => file_result.err # "MalformedFileError"

(***************************************************************************)
(* Properties of parse.                                                    *)
(***************************************************************************)
IsTitleLine(line) == StartsWith(strip(line), "#")
IsContentLine(line) == strip(line) # <<>> /\ ~IsTitleLine(line)

\* a content line stands before the first title line of the text
ContentBeforeTitle(text) ==
    LET lines == splitlines(text)
    IN  \E t \in 1..Len(lines) :
            /\ IsTitleLine(lines[t])
            /\ \A j \in 1..(t - 1) : ~IsTitleLine(lines[j])
            /\ \E j \in 1..(t - 1) : IsContentLine(lines[j])

\* C14 (content before the first title), as claimed: parse fails with
\* MalformedFileError on a text with a content line before its first title.
ContentBeforeTitleRejected ==
    pc = "parsed" /\ ContentBeforeTitle(content) =>
        composition.err = "MalformedFileError"

IsBlankTextLine(line) == strip(line) = <<>>
IsCommentLine(line) == OccursAt(line, <<"/", "/">>, 0)

\* the text without its blank lines and its comment lines
WithoutSkippedLines(text) ==
    Join(SelectSeq(splitlines(text),
                   LAMBDA l : ~IsBlankTextLine(l) /\ ~IsCommentLine(l)),
         <<"\n">>)

\* C15 (blank and comment lines), as claimed: parse returns for a text what
\* it returns for the text without its blank lines and its comment lines.
BlankAndCommentLinesSkipped ==
    pc = "parsed" => composition = parse(WithoutSkippedLines(content))

(***************************************************************************)
(* Properties of the notes of a line.                                      *)
(***************************************************************************)
\* the number of characters c in s
Count(s, c) == Cardinality({k \in 1..Len(s) : s[k] = c})

\* the NOTE tokens of the line and the notes made of them, in order
NoteTokens == SelectSeq(line_tokens, LAMBDA t : t.type = "NOTE")
NotesAssembled ==
    LET es == SelectSeq(line_elements.val, LAMBDA e : HasNote(e))
    IN  [k \in 1..Len(es) |-> es[k].note]

\* C16 (octave marks), as claimed: when the notes of a line are accepted, no
\* NOTE token carries both ' and , marks, a note with ' marks alone has their
\* number as its octave and a note with , marks alone minus their number.
OctaveMarksExclusive ==
    lpc \in {"elements", "beats"} =>
        /\ Len(NotesAssembled) = Len(NoteTokens)
        /\ \A k \in 1..Len(NoteTokens) :
              LET up   == Count(NoteTokens[k].value, "'")
                  down == Count(NoteTokens[k].value, ",")
              IN  /\ ~(up > 0 /\ down > 0)
                  /\ up > 0 => NotesAssembled[k].octave = up
                  /\ down > 0 => NotesAssembled[k].octave = -down

(***************************************************************************)
(* SURFileGenerator (surmaker-cli.py): loading a file.                     *)
(***************************************************************************)
UpperCase ==
    <<"A", "B", "C", "D", "E", "F", "G", "H", "I", "J", "K", "L", "M",
      "N", "O", "P", "Q", "R", "S", "T", "U", "V", "W", "X", "Y", "Z">>
LowerCase ==
    <<"a", "b", "c", "d", "e", "f", "g", "h", "i", "j", "k", "l", "m",
      "n", "o", "p", "q", "r", "s", "t", "u", "v", "w", "x", "y", "z">>

\* s.lower()
lower(s) ==
    [k \in 1..Len(s) |->
        IF \E i \in 1..26 : UpperCase[i] = s[k]
        THEN LowerCase[CHOOSE i \in 1..26 : UpperCase[i] = s[k]]
        ELSE s[k]]

\* int(s) for a string of digits
RECURSIVE int(_)
int(s) ==
    IF s = <<>> THEN 0
    ELSE 10 * int(SubSeq(s, 1, Len(s) - 1))
             + (CHOOSE d \in 0..9 : <<"0", "1", "2", "3", "4", "5", "6", "7", "8", "9">>[d + 1] = s[Len(s)])

\* the spelling of the keys of TAAL_PATTERNS
TaalSpelling ==
    [teental  |-> <<"t", "e", "e", "n", "t", "a", "l">>,
     jhaptaal |-> <<"j", "h", "a", "p", "t", "a", "a", "l">>,
     ektaal   |-> <<"e", "k", "t", "a", "a", "l">>,
     rupak    |-> <<"r", "u", "p", "a", "k">>,
     keherwa  |-> <<"k", "e", "h", "e", "r", "w", "a">>]

\* the key of TAAL_PATTERNS that taal.lower() is, or a name that is no key
taal_key(text) ==
    IF \E n \in DOMAIN TaalSpelling : TaalSpelling[n] = lower(text)
    THEN CHOOSE n \in DOMAIN TaalSpelling : TaalSpelling[n] = lower(text)
    ELSE "dadra"

\* the length of the longest run of characters outside set in s from the
\* 0-based offset i on
RECURSIVE RunLenExcept(_, _, _)
RunLenExcept(s, i, set) ==
    IF i < Len(s) /\ s[i + 1] \notin set THEN 1 + RunLenExcept(s, i + 1, set) ELSE 0

\* the length of group 1 of  (.*?)"  matched at the offset i, or -1
lazy_group_len(s, i) ==
    IF i + RunLenExcept(s, i, {QUOTE, "\n"}) < Len(s)
       /\ s[i + RunLenExcept(s, i, {QUOTE, "\n"}) + 1] = QUOTE
    THEN RunLenExcept(s, i, {QUOTE, "\n"})
    ELSE -1

\* the length of group 1 of  (\d+)"  matched at the offset i, or -1
digits_group_len(s, i) ==
    IF RunLen(s, i, Digits) >= 1
       /\ i + RunLen(s, i, Digits) < Len(s)
       /\ s[i + RunLen(s, i, Digits) + 1] = QUOTE
    THEN RunLen(s, i, Digits)
    ELSE -1

\* the length of group 1 of the pattern matched at the offset i, or -1
group_len(s, i, digits) ==
    IF digits THEN digits_group_len(s, i) ELSE lazy_group_len(s, i)

\* the offsets at which  key: "(.*?)"  , or the same with (\d+), matches in s
match_offsets(s, key, digits) ==
    {i \in 0..Len(s) :
        /\ OccursAt(s, key \o <<":", SPACE, QUOTE>>, i)
        /\ group_len(s, i + Len(key) + 3, digits) >= 0}

\* the least of a non-empty set of numbers
Least(set) == CHOOSE i \in set : \A j \in set : i <= j

\* re.search of the pattern in s: group 1 of the leftmost match, or None
search_from(s, key, digits, offsets) ==
    IF offsets = {} THEN None
    ELSE Slice(s, Least(offsets) + Len(key) + 3,
               Least(offsets) + Len(key) + 3
                   + group_len(s, Least(offsets) + Len(key) + 3, digits))

search_metadata(s, key) == search_from(s, key, FALSE, match_offsets(s, key, FALSE))
search_beats_per_row(s) ==
    search_from(s, <<"b", "e", "a", "t", "s", "_", "p", "e", "r", "_", "r", "o", "w">>, TRUE,
                match_offsets(s, <<"b", "e", "a", "t", "s", "_", "p", "e", "r", "_", "r", "o", "w">>,
                              TRUE))

\* re.findall(r'\[.*?\]|[^\s\[\]]+', s) from the offset i on
RECURSIVE find_beats(_, _)
find_beats(s, i) ==
    IF i >= Len(s) THEN <<>>
    ELSE IF s[i + 1] = "[" /\ Find(s, <<"]">>, i + 1) >= 0
    THEN <<Slice(s, i, Find(s, <<"]">>, i + 1) + 1)>>
             \o find_beats(s, Find(s, <<"]">>, i + 1) + 1)
    ELSE IF s[i + 1] \notin Whitespace \cup {"[", "]"}
    THEN <<Slice(s, i, i + RunLenExcept(s, i, Whitespace \cup {"[", "]"}))>>
             \o find_beats(s, i + RunLenExcept(s, i, Whitespace \cup {"[", "]"}))
    ELSE find_beats(s, i + 1)

\* s.strip('[]')
RECURSIVE strip_brackets(_)
strip_brackets(s) ==
    IF s # <<>> /\ s[1] \in {"[", "]"} THEN strip_brackets(Tail(s))
    ELSE IF s # <<>> /\ s[Len(s)] \in {"[", "]"}
    THEN strip_brackets(SubSeq(s, 1, Len(s) - 1))
    ELSE s

\* re.search(r'"([^"]+)"', s) from the offset i on: group 1, or None
RECURSIVE quoted_lyric_from(_, _)
quoted_lyric_from(s, i) ==
    IF i >= Len(s) THEN None
    ELSE IF /\ s[i + 1] = QUOTE
            /\ RunLenNot(s, i + 1, QUOTE) >= 1
            /\ i + 1 + RunLenNot(s, i + 1, QUOTE) < Len(s)
    THEN Slice(s, i + 1, i + 1 + RunLenNot(s, i + 1, QUOTE))
    ELSE quoted_lyric_from(s, i + 1)

\* standardize_beat, lines 368-381: the notes of what is left of the beat
notes_of(text, is_bracketed) ==
    IF text = <<>> THEN None
    ELSE IF is_bracketed THEN strip(text)
    ELSE IF Contains(text, SPACE) \/ Contains(text, "-") \/ Contains(text, "*")
    THEN Join(SplitWs(text, <<>>), <<SPACE>>)
    ELSE Replace(text, <<SPACE>>, <<>>)

NoteChars == {"S", "R", "G", "M", "P", "D", "N", ".", "-", "'", "*", SPACE}

\* standardize_beat, lines 349-383, given the quoted lyric found in the text
\* (None when there is none); the first word of a text without a word is an
\* IndexError
standardize_content(text, is_bracketed, quoted) ==
    IF text = <<>> THEN Ok(<<None, None>>)
    ELSE IF quoted # None
    THEN Ok(<<quoted,
              notes_of(strip(Replace(text, <<QUOTE>> \o quoted \o <<QUOTE>>, <<>>)),
                       is_bracketed)>>)
    ELSE IF SplitWs(text, <<>>) = <<>> THEN Raise("IndexError")
    ELSE IF \E k \in 1..Len(SplitWs(text, <<>>)[1]) : SplitWs(text, <<>>)[1][k] \notin NoteChars
    THEN Ok(<<SplitWs(text, <<>>)[1],
              notes_of(Join(Tail(SplitWs(text, <<>>)), <<SPACE>>), is_bracketed)>>)
    ELSE Ok(<<None, notes_of(text, is_bracketed)>>)

\* standardize_beat: <<lyrics, notes>>
standardize_beat(beat) ==
    IF beat = <<>> \/ beat = DASH THEN Ok(<<None, None>>)
    ELSE IF beat = STAR THEN Ok(<<None, STAR>>)
    ELSE standardize_content(strip_brackets(beat),
                             beat[1] = "[" /\ beat[Len(beat)] = "]",
                             quoted_lyric_from(strip_brackets(beat), 0))

\* x or "-"
or_dash(x) == IF x = None \/ x = <<>> THEN DASH ELSE x

\* from_file, lines 218-228: the row made of the beats of a line
RECURSIVE process_beats(_, _)
process_beats(beats, beat_position) ==
    IF beats = <<>> THEN Ok(<<>>)
    ELSE AndThen(standardize_beat(Head(beats)),
                 LAMBDA ln :
                     AndThen(process_beats(Tail(beats), beat_position + 1),
                             LAMBDA rest :
                                 Ok(<<<<beat_position, or_dash(ln[1]), or_dash(ln[2])>>>>
                                        \o rest)))

\* from_file, lines 204-232: one stripped line of the file
load_line(b, line) ==
    IF line = <<>> \/ OccursAt(line, <<"%", "%">>, 0) \/ StartsWith(line, "@")
    THEN Ok(b)
    ELSE IF StartsWith(line, "#") THEN Ok(add_section_header(b, line))
    ELSE IF OccursAt(line, <<"b", ":">>, 0)
    THEN AndThen(process_beats(
                     find_beats(Replace(strip(Slice(line, 2, Len(line))),
                                        <<"]", "[">>, <<"]", SPACE, "[">>), 0),
                     1),
                 LAMBDA row : Ok(IF row # <<>>
                                 THEN [add_line(b, row) EXCEPT !.current_beat = 1]
                                 ELSE b))
    ELSE Ok(b)

RECURSIVE load_lines(_, _)
load_lines(b, lines) ==
    IF lines = <<>> THEN Ok(b)
    ELSE AndThen(load_line(b, strip(Head(lines))),
                 LAMBDA b1 : load_lines(b1, Tail(lines)))

\* SURFileGenerator.__init__: beats_per_row is 0 for None
NewGenerator(name, raag, taal_text, tempo, beats_per_row) ==
    [config  |-> [name |-> name,
                  raag |-> lower(raag),
                  taal |-> lower(taal_text),
                  beats_per_row |-> IF beats_per_row # 0 THEN beats_per_row
                                    ELSE get_max_beats(taal_key(taal_text)),
                  tempo |-> lower(tempo)],
     builder |-> NewBuilder(taal_key(taal_text))]

\* from_file given what the five searches found
from_file_with(text, name, raag, taal_text, tempo, beats_per_row) ==
    IF None \in {name, raag, taal_text, tempo, beats_per_row}
    THEN Raise("ValueError")
    ELSE AndThen(load_lines(NewBuilder(taal_key(taal_text)), Split(text, "\n")),
                 LAMBDA b :
                     Ok([NewGenerator(name, raag, taal_text, tempo, int(beats_per_row))
                            EXCEPT !.builder = b]))

\* SURFileGenerator.from_file on the text of the file
from_file(text) ==
    from_file_with(text,
                   search_metadata(text, <<"n", "a", "m", "e">>),
                   search_metadata(text, <<"r", "a", "a", "g">>),
                   search_metadata(text, <<"t", "a", "a", "l">>),
                   search_metadata(text, <<"t", "e", "m", "p", "o">>),
                   search_beats_per_row(text))

\* the metadata lines of a file, each of which may be missing
MetadataLines ==
    << <<"n", "a", "m", "e", ":", SPACE, QUOTE, "x", QUOTE>>,
       <<"r", "a", "a", "g", ":", SPACE, QUOTE, "Y", QUOTE>>,
       <<"t", "a", "a", "l", ":", SPACE, QUOTE, "R", "u", "p", "a", "k", QUOTE>>,
       <<"t", "e", "m", "p", "o", ":", SPACE, QUOTE, "m", QUOTE>>,
       <<"b", "e", "a", "t", "s", "_", "p", "e", "r", "_", "r", "o", "w", ":", SPACE,
         QUOTE, "4", QUOTE>> >>

\* the composition lines of a file: a header, a row, a row with a lyric
CompositionLines ==
    { <<"#", "A">>,
      <<"b", ":", SPACE, "S", SPACE, "-", SPACE, "[", "s", "a", SPACE, "R", "]">>,
      <<"b", ":", SPACE, QUOTE, "m", "o", QUOTE, "S", "R", SPACE, "*">> }

SurTexts ==
    { Join(SelectSeq(MetadataLines, LAMBDA l : l \in kept) \o rows, <<"\n">>) :
          kept \in SUBSET {MetadataLines[k] : k \in 1..5},
          rows \in SeqsUpTo(CompositionLines, MaxLoadLines) }

InitLoad ==
    /\ BuilderIdle
    /\ EditorIdle
    /\ ShowIdle
    /\ ParserIdle
    /\ GroupIdle
    /\ LineIdle
    /\ FileIdle
    /\ sur_text \in SurTexts
    /\ spc = "input"
    /\ generator = Ok(<<>>)

FromFile ==
    /\ spc = "input"
    /\ generator' = from_file(sur_text)
    /\ spc' = "done"
    /\ UNCHANGED <<sur_text, besides_load>>

NextLoad == FromFile

SpecLoad == InitLoad /\ [][NextLoad]_vars

\* the file has a line  key: "..."
HasKey(text, key) == \E l \in {MetadataLines[k] : k \in 1..5} :
    /\ OccursAt(l, key \o <<":">>, 0)
    /\ \E k \in 1..Len(Split(text, "\n")) : Split(text, "\n")[k] = l

RequiredKeys ==
    { <<"n", "a", "m", "e">>, <<"r", "a", "a", "g">>, <<"t", "a", "a", "l">>,
      <<"t", "e", "m", "p", "o">> }

\* C17 (optional beats_per_row), as claimed: a file with name, raag, taal and
\* tempo loads whether it has beats_per_row or not, with the row width of the
\* taal table (7 for rupak) when it has not; loading fails exactly when one
\* of the four required keys is missing.
BeatsPerRowOptional ==
    spc = "done" =>
        /\ (\A key \in RequiredKeys : HasKey(sur_text, key)) <=> generator.err = "none"
        /\ (\A key \in RequiredKeys : HasKey(sur_text, key))
           /\ ~HasKey(sur_text, <<"b", "e", "a", "t", "s", "_", "p", "e", "r", "_", "r", "o", "w">>)
              => generator.val.config.beats_per_row = 7

(***************************************************************************)
(* Further properties of the builder.                                      *)
(***************************************************************************)
\* C18 (header anchors): add_section_header appends the pair of the number
\* of flushed rows and its text and leaves the pairs recorded before alone;
\* add_beat, add_empty_beats, add_line, finalize_line and
\* get_formatted_composition leave the header list as it is.
HeaderAnchorsKept ==
    [][ IF lastOp'.name = "add_section_header"
        THEN builder'.section_headers =
                 Append(builder.section_headers,
                        <<Len(builder.composition_lines), lastOp'.header>>)
        ELSE builder'.section_headers = builder.section_headers ]_vars

\* C18 witness: a header recorded before any row is still anchored at 0
\* after a beat has been added and its row flushed
HeaderAnchorsKeptWitness ==
    /\ lastOp.name \in {"finalize_line", "get_formatted_composition"}
    /\ Len(builder.section_headers) = 1
    /\ builder.section_headers[1][1] = 0
    /\ Len(builder.composition_lines) = 1
    /\ builder.composition_lines[1][1][3] = <<"S">>

(***************************************************************************)
(* The builder calls of the interactive loop of main: add_beat,            *)
(* add_empty_beats for a beat jump, and the undo command.                  *)
(***************************************************************************)
\* the undo command leaving current_beat where it is
undo_keeping_beat(b) ==
    IF b.current_line # <<>>
    THEN [b EXCEPT !.current_line = SubSeq(@, 1, Len(@) - 1)]
    ELSE b

\* main, lines 561-566: the undo command
undo(b) ==
    IF b.current_line # <<>>
    THEN [b EXCEPT !.current_line = SubSeq(@, 1, Len(@) - 1),
                   !.current_beat = @ - 1]
    ELSE b

Undo ==
    /\ builder' = undo(builder)
    /\ Called(Op("undo", None, None, 0, <<>>, <<>>))
    /\ UNCHANGED <<formatted_lines, before_add_beat>>

\* the beats a beat jump of the session goes to
JumpTargets == {4, 7, 16}

EnterBeat == \E in \in WrapInputs : calls < MaxUndoCalls /\ AddBeat(in[1], in[2])
EnterJump == \E t \in JumpTargets : calls < MaxUndoCalls /\ AddEmptyBeats(t)
EnterUndo == calls < MaxUndoCalls /\ Undo

NextUndo == EnterBeat \/ EnterJump \/ EnterUndo

SpecUndo == Init /\ [][NextUndo]_vars

\* C19 (undo), as claimed: undo entered right after an add_beat restores
\* composition_lines, the active row and current_beat to what they were
\* before that add_beat, also when the add_beat filled the row.
UndoRestores ==
    [][ (lastOp.name = "add_beat" /\ lastOp'.name = "undo")
        => /\ builder'.composition_lines = before_add_beat.composition_lines
           /\ builder'.current_line = before_add_beat.current_line
           /\ builder'.current_beat = before_add_beat.current_beat ]_vars

\* a session of beats and beat jumps alone
NextJump == EnterBeat \/ EnterJump

SpecJump == Init /\ [][NextJump]_vars

\* C20 (sustain repeats the previous beat), as claimed: the entry recorded
\* by add_beat(x, '*') has the lyric and the note of the entry recorded
\* right before it, the last of the active row or of the last flushed row.
SustainRepeatsPreviousEntry ==
    [][ (/\ lastOp'.name = "add_beat"
         /\ lastOp'.notes = STAR
         /\ calls' = calls + 1
         /\ builder.current_line # <<>> \/ builder.composition_lines # <<>>)
        => Pair(LastEntry(builder')) = Pair(LastEntry(builder)) ]_vars

\* the remembered lyric and note as add_beat records them
Remembered(b) == <<dash_if_empty(b.last_lyric), dash_if_empty(b.last_note)>>

\* C20 (sustain repeats the last beat entered), amended: in a session of
\* add_beat and add_empty_beats calls the entry recorded by add_beat(x, '*')
\* has the lyric and the note of the entry recorded by the most recent
\* add_beat before it (silence when there is none), whatever silence
\* add_empty_beats has appended since.  Step by step: every add_beat leaves
\* the pair it recorded as the remembered pair, a sustain records the pair
\* remembered before it, right after an add_beat that is the entry before
\* it, and add_empty_beats leaves the remembered pair alone.
SustainRepeatsLastBeat ==
    [][ /\ (lastOp'.name = "add_beat" /\ calls' = calls + 1) =>
              /\ Remembered(builder') = Pair(LastEntry(builder'))
              /\ lastOp'.notes = STAR =>
                    /\ Pair(LastEntry(builder')) = Remembered(builder)
                    /\ lastOp.name = "add_beat" =>
                          Pair(LastEntry(builder')) = Pair(LastEntry(builder))
              /\ lastOp'.notes # STAR =>
                    Pair(LastEntry(builder')) =
                        <<dash_if_empty(lastOp'.lyrics), dash_if_empty(lastOp'.notes)>>
        /\ (lastOp'.name = "add_empty_beats" /\ calls' = calls + 1) =>
              /\ builder'.last_note = builder.last_note
              /\ builder'.last_lyric = builder.last_lyric ]_vars

\* C20 witness: add_beat("sa", "S"), a jump to beat 4 and a sustain, which
\* records ("sa", "S") after two beats of silence
SustainRepeatsLastBeatWitness ==
    /\ lastOp.name = "add_beat"
    /\ lastOp.notes = STAR
    /\ Len(builder.current_line) = 4
    /\ Pair(builder.current_line[1]) = <<<<"s", "a">>, <<"S">>>>
    /\ Pair(builder.current_line[2]) = <<DASH, DASH>>
    /\ Pair(builder.current_line[3]) = <<DASH, DASH>>
    /\ Pair(builder.current_line[4]) = <<<<"s", "a">>, <<"S">>>>

(***************************************************************************)
(* Further properties of parse_line.                                       *)
(***************************************************************************)
\* the line is made of note tokens, brackets and whitespace alone
OnlyNotesBracketsWhitespace ==
    \A k \in 1..Len(line_tokens) :
        line_tokens[k].type \in {"NOTE", "OPEN_BRACKET", "CLOSE_BRACKET", "SEPARATOR"}

\* C21 (NOTE tokens are accepted), as claimed: _parse_single_note succeeds
\* on every NOTE token _tokenize produces, tokens with leading lower-octave
\* marks included, and parse_line does not raise on a line made of note
\* tokens, brackets and whitespace alone.
NoteTokensAccepted ==
    lpc # "input" =>
        /\ \A k \in 1..Len(line_tokens) :
              line_tokens[k].type = "NOTE" =>
                  parse_single_note(line_tokens[k].value).err = "none"
        /\ OnlyNotesBracketsWhitespace => lpc # "raised"

(***************************************************************************)
(* Further properties of the grouper.                                      *)
(***************************************************************************)
\* C22 (grouping loses no element), as claimed: when _elements_to_beats
\* returns, the elements of the returned beats, concatenated, are the NORMAL
\* elements of the stream in order, nested and unbalanced brackets included;
\* no returned beat is empty and none holds a structural element.
GroupingLosesNoElement ==
    (gpc = "grouped" /\ grouped.err = "none") =>
        /\ Concat([j \in 1..Len(grouped.val) |-> grouped.val[j].elements])
               = SelectSeq(stream, LAMBDA e : e.type = "NORMAL")
        /\ \A j \in 1..Len(grouped.val) :
              /\ grouped.val[j].elements # <<>>
              /\ \A k \in 1..Len(grouped.val[j].elements) :
                    grouped.val[j].elements[k].type = "NORMAL"

(***************************************************************************)
(* The show command of main: two builders given the same add_beat calls,   *)
(* the first rendered now and then, the second never.                      *)
(***************************************************************************)
\* main, lines 577-583: add_beat, made on both builders
ShowBeat ==
    \E in \in WrapInputs :
        /\ calls < MaxShowCalls
        /\ builder' = add_beat(builder, in[1], in[2])
        /\ unrendered' = add_beat(unrendered, in[1], in[2])
        /\ before_add_beat' = builder
        /\ lastOp' = Op("add_beat", in[1], in[2], 0, <<>>, <<>>)
        /\ calls' = calls + 1
        /\ UNCHANGED <<taal, formatted_lines, besides_builders>>

\* main, lines 567-571: show, made on the first builder alone
ShowComposition == calls < MaxShowCalls /\ GetFormattedComposition

NextShow == ShowBeat \/ ShowComposition

SpecShow == Init /\ [][NextShow]_vars

\* C23 (rendering keeps the layout), as claimed: whatever renders came in
\* between, the builder ends with the rows and the rendered lines of the
\* builder given the same add_beat calls and no render.
RenderingKeepsLayout ==
    /\ finalize_line(builder).composition_lines
           = finalize_line(unrendered).composition_lines
    /\ get_formatted_composition(builder) = get_formatted_composition(unrendered)

(***************************************************************************)
(* Beats added to the builder of a loaded file.                            *)
(***************************************************************************)
\* main, lines 577-583, on the generator from_file returned
LoadedBeat ==
    \E in \in WrapInputs :
        /\ spc = "done"
        /\ generator.err = "none"
        /\ calls < MaxLoadedBeats
        /\ generator' = [generator EXCEPT !.val.builder = add_beat(@, in[1], in[2])]
        /\ calls' = calls + 1
        /\ UNCHANGED <<taal, builder, formatted_lines, lastOp, before_add_beat,
                       sur_text, spc, pvars, gvars, lvars, fvars, hvars, evars>>

NextLoadBeats == FromFile \/ LoadedBeat

SpecLoadBeats == InitLoad /\ [][NextLoadBeats]_vars

\* C24 (row width), as claimed: the builder of a generator made with an
\* explicit beats_per_row has that row width, so its active row never holds
\* as many beats as beats_per_row: add_beat has wrapped before.
RowWidthIsBeatsPerRow ==
    (spc = "done" /\ generator.err = "none") =>
        /\ generator.val.builder.max_beats = generator.val.config.beats_per_row
        /\ Len(generator.val.builder.current_line) < generator.val.config.beats_per_row

(***************************************************************************)
(* A session of beats, beat jumps, undo, finalize_line and show.           *)
(***************************************************************************)
EnterFinalize == calls < MaxUndoCalls /\ FinalizeLine
EnterShow == calls < MaxUndoCalls /\ GetFormattedComposition

NextSession == EnterBeat \/ EnterJump \/ EnterUndo \/ EnterFinalize \/ EnterShow

SpecSession == Init /\ [][NextSession]_vars

\* every entry of the row stores its 1-based position in the row
Numbered(row) == \A k \in 1..Len(row) : row[k][1] = k

\* C25 (position invariant): after any add_beat, add_empty_beats,
\* finalize_line, get_formatted_composition and undo commands, current_beat
\* is one more than the length of the active row, and every entry of the
\* active row and of the flushed rows stores its position within its row.
PositionInvariant ==
    /\ builder.current_beat = Len(builder.current_line) + 1
    /\ Numbered(builder.current_line)
    /\ \A r \in 1..Len(builder.composition_lines) :
          Numbered(builder.composition_lines[r])

\* C25 witness: an undo that left a beat in the active row after a row was
\* flushed by the auto-wrap
PositionInvariantWitness ==
    /\ lastOp.name = "undo"
    /\ Len(builder.composition_lines) = 1
    /\ Len(builder.composition_lines[1]) = builder.max_beats
    /\ Len(builder.current_line) = 1
    /\ builder.current_beat = 2

(***************************************************************************)
(* SURFileGenerator.doctor_composition.                                    *)
(***************************************************************************)
\* s.upper()
upper(s) ==
    [k \in 1..Len(s) |->
        IF \E i \in 1..26 : LowerCase[i] = s[k]
        THEN UpperCase[CHOOSE i \in 1..26 : LowerCase[i] = s[k]]
        ELSE s[k]]

\* _is_single_note_with_octave: re.match(r'^[.]?[SRGMPDN]\'?$', text)
is_single_note_with_octave(text) ==
    LET rest == IF StartsWith(text, ".") THEN Tail(text) ELSE text
    IN  /\ rest # <<>>
        /\ rest[1] \in PitchLetters
        /\ Len(rest) = 1 \/ (Len(rest) = 2 /\ rest[2] = "'")

is_valid_note(text) ==
    IF Contains(text, SPACE)
    THEN \A k \in 1..Len(SplitWs(text, <<>>)) :
             is_single_note_with_octave(SplitWs(text, <<>>)[k])
    ELSE is_single_note_with_octave(text)

\* the truth value of an Optional[str]
Truthy(x) == x # None /\ x # <<>>

\* doctor_composition, lines 408-425: the text a beat of a rendered row is
\* replaced with, given what standardize_beat made of it
doctored_beat(lyrics, notes) ==
    IF Truthy(lyrics) /\ Truthy(notes)
    THEN <<QUOTE>> \o lower(lyrics) \o <<QUOTE, ":">>
             \o (IF is_valid_note(notes) THEN upper(notes) ELSE notes)
    ELSE IF Truthy(lyrics) THEN <<QUOTE>> \o lower(lyrics) \o <<QUOTE>>
    ELSE IF Truthy(notes) THEN (IF is_valid_note(notes) THEN upper(notes) ELSE notes)
    ELSE DASH

\* doctor_composition, lines 403-427: the processed beats of a row
RECURSIVE doctored_beats(_)
doctored_beats(beats) ==
    IF beats = <<>> THEN Ok(<<>>)
    ELSE AndThen(IF Head(beats) = DASH THEN Ok(DASH)
                 ELSE AndThen(standardize_beat(Head(beats)),
                              LAMBDA ln : Ok(doctored_beat(ln[1], ln[2]))),
                 LAMBDA first :
                     AndThen(doctored_beats(Tail(beats)),
                             LAMBDA rest : Ok(<<first>> \o rest)))

\* the locals of doctor_composition before its first loop
DoctorStart == [lines |-> <<>>, current_section |-> None, current_beats |-> <<>>]

\* doctor_composition, lines 392-427: one rendered line
doctor_line(d, line) ==
    IF line = <<>> THEN Ok(d)
    ELSE IF StartsWith(line, "#")
    THEN Ok([d EXCEPT !.lines = IF d.current_beats # <<>>
                                THEN Append(@, <<d.current_section, d.current_beats>>)
                                ELSE @,
                      !.current_beats = <<>>,
                      !.current_section = line])
    ELSE IF OccursAt(line, <<"b", ":">>, 0)
    THEN AndThen(doctored_beats(SplitWs(strip(Slice(line, 2, Len(line))), <<>>)),
                 LAMBDA row : Ok([d EXCEPT !.current_beats = Append(@, row)]))
    ELSE Ok(d)

RECURSIVE doctor_lines(_, _)
doctor_lines(d, lines) ==
    IF lines = <<>>
    THEN Ok(IF d.current_beats # <<>>
            THEN Append(d.lines, <<d.current_section, d.current_beats>>)
            ELSE d.lines)
    ELSE AndThen(doctor_line(d, strip(Head(lines))),
                 LAMBDA d1 : doctor_lines(d1, Tail(lines)))

\* doctor_composition, lines 444-452: the entry made of the beat at the
\* 0-based position i of a row
doctored_entry(i, beat) ==
    IF beat = DASH THEN <<i + 1, DASH, DASH>>
    ELSE IF Contains(beat, ":")
    THEN <<i + 1, strip_quotes(Slice(beat, 0, Find(beat, <<":">>, 0))),
           Slice(beat, Find(beat, <<":">>, 0) + 1, Len(beat))>>
    ELSE <<i + 1, DASH, beat>>

\* doctor_composition, lines 439-453: the rows of one section added
RECURSIVE doctor_rows(_, _)
doctor_rows(b, rows) ==
    IF rows = <<>> THEN b
    ELSE doctor_rows(
             add_line(b, [k \in 1..Len(Head(rows)) |-> doctored_entry(k - 1, Head(rows)[k])]),
             Tail(rows))

\* doctor_composition, lines 439-453: the sections added
RECURSIVE doctor_sections(_, _)
doctor_sections(b, lines) ==
    IF lines = <<>> THEN b
    ELSE doctor_sections(
             doctor_rows(IF Truthy(Head(lines)[1])
                         THEN add_section_header(b, Head(lines)[1])
                         ELSE b,
                         Head(lines)[2]),
             Tail(lines))

\* doctor_composition on the builder of the generator: the builder it
\* leaves, or the exception it raises (the builder is then finalize_line(b),
\* as get_formatted_composition left it)
doctor_composition(b) ==
    AndThen(doctor_lines(DoctorStart, get_formatted_composition(b)),
            LAMBDA lines :
                Ok(doctor_sections([finalize_line(b) EXCEPT !.composition_lines = <<>>,
                                                            !.current_line = <<>>,
                                                            !.current_beat = 1,
                                                            !.section_headers = <<>>],
                                   lines)))

\* a call of doctor_composition on the generator that holds the builder
DoctorComposition ==
    /\ builder' = IF doctor_composition(builder).err = "none"
                  THEN doctor_composition(builder).val
                  ELSE finalize_line(builder)
    /\ Called(Op("doctor_composition", None, None, 0, <<>>, <<>>))
    /\ UNCHANGED <<formatted_lines, before_add_beat>>

DoctorBeat == \E l \in Lyrics, n \in Notes : calls < MaxDoctorCalls /\ AddBeat(l, n)
DoctorHeader == \E h \in Headers : calls < MaxDoctorCalls /\ AddSectionHeader(h)
Doctor == calls < MaxDoctorCalls /\ DoctorComposition

NextDoctor == DoctorBeat \/ DoctorHeader \/ Doctor

SpecDoctor == Init /\ [][NextDoctor]_vars

\* C26 (doctor_composition only reformats), as claimed: doctor_composition
\* leaves the number of rows, the number of beats of each row and the
\* section headers with their anchors as they were, the unfinished row
\* counted as a row; called again, it changes nothing.
DoctorOnlyReformats ==
    [][ (lastOp'.name = "doctor_composition" /\ calls' = calls + 1) =>
            /\ Len(builder'.composition_lines)
                   = Len(finalize_line(builder).composition_lines)
            /\ \A r \in 1..Len(builder'.composition_lines) :
                  Len(builder'.composition_lines[r])
                      = Len(finalize_line(builder).composition_lines[r])
            /\ builder'.section_headers = builder.section_headers
            /\ lastOp.name = "doctor_composition" => builder' = builder ]_vars

(***************************************************************************)
(* Editor (editor.py): the cursor and the editing commands.                *)
(***************************************************************************)
Min(a, b) == IF a <= b THEN a ELSE b

\* the bound i of a slice of a list of n items, as Python clamps it
SliceBound(i, n) == IF i < 0 THEN Max(i + n, 0) ELSE Min(i, n)

\* s[i:j] = items
SliceAssign(s, i, j, items) ==
    LET lo == SliceBound(i, Len(s))
        hi == Max(SliceBound(j, Len(s)), lo)
    IN  Slice(s, 0, lo) \o items \o Slice(s, hi, Len(s))

\* the section the cursor is in
current_section(e) == e.current_file[1].composition[e.current_section_index + 1]

\* the editor with the beats of the section the cursor is in replaced
with_beats(e, bs) ==
    [e EXCEPT !.current_file[1].composition[e.current_section_index + 1].beats = bs]

\* self.parser._parse_beats(notes_str), lines 253, 280 and 314: SURParser
\* has no attribute _parse_beats
parse_beats(notes_str) == Raise("AttributeError")

\* what a method of the editor leaves: the object, and the exception that
\* went out of it, if any
Outcome(e, err) == [editor |-> e, err |-> err]

\* Editor.show_current_position: it changes nothing and prints, unless the
\* file has no section at the cursor, or the section has a beat: _format_beat
\* reads beat.is_silence (line 329), an attribute Beat does not have.  The
\* metadata of the files here have no beats_per_rhythm entry.
show_current_position(e) ==
    IF e.current_file = <<>> THEN Outcome(e, "none")
    ELSE IF e.current_section_index >= Len(e.current_file[1].composition)
    THEN Outcome(e, "IndexError")
    ELSE IF current_section(e).beats # <<>> THEN Outcome(e, "AttributeError")
    ELSE Outcome(e, "none")

\* Editor.load_file on the text of the file
load_file(e, text) ==
    IF parse_file(text).err # "none" THEN Outcome(e, parse_file(text).err)
    ELSE show_current_position([e EXCEPT !.current_file = <<parse_file(text).val>>])

\* Editor.new_file, for metadata and a scale left empty
new_file(e) ==
    Outcome([e EXCEPT !.current_file =
                          <<SURFile(<<>>, <<>>,
                                    <<Section(<<"S", "t", "h", "a", "y", "i">>, <<>>)>>)>>,
                      !.modified = TRUE],
            "none")

\* Editor._move_next
move_next(e) ==
    show_current_position(
        IF e.current_beat_index < Len(current_section(e).beats) - 1
        THEN [e EXCEPT !.current_beat_index = @ + 1]
        ELSE IF e.current_section_index < Len(e.current_file[1].composition) - 1
        THEN [e EXCEPT !.current_section_index = @ + 1, !.current_beat_index = 0]
        ELSE e)

\* Editor._move_prev
move_prev(e) ==
    show_current_position(
        IF e.current_beat_index > 0
        THEN [e EXCEPT !.current_beat_index = @ - 1]
        ELSE IF e.current_section_index > 0
        THEN [e EXCEPT !.current_section_index = @ - 1,
                       !.current_beat_index =
                           Len(e.current_file[1].composition[e.current_section_index].beats) - 1]
        ELSE e)

\* Editor._append_notes with a non-empty notes_str
append_notes(e, notes_str) ==
    IF e.current_file = <<>> THEN Outcome(e, "none")
    ELSE IF parse_beats(notes_str).err # "none" THEN Outcome(e, parse_beats(notes_str).err)
    ELSE IF parse_beats(notes_str).val = <<>> THEN Outcome(e, "none")
    ELSE show_current_position(
             [with_beats(e, SliceAssign(current_section(e).beats,
                                        e.current_beat_index + 1,
                                        e.current_beat_index + 1,
                                        parse_beats(notes_str).val))
                 EXCEPT !.modified = TRUE,
                        !.current_beat_index = @ + 1 + Len(parse_beats(notes_str).val) - 1])

\* Editor._replace_notes with a non-empty notes_str
replace_notes(e, notes_str) ==
    IF e.current_file = <<>> THEN Outcome(e, "none")
    ELSE IF parse_beats(notes_str).err # "none" THEN Outcome(e, parse_beats(notes_str).err)
    ELSE IF parse_beats(notes_str).val = <<>> THEN Outcome(e, "none")
    ELSE show_current_position(
             [with_beats(e, SliceAssign(current_section(e).beats,
                                        e.current_beat_index,
                                        e.current_beat_index + 1,
                                        parse_beats(notes_str).val))
                 EXCEPT !.modified = TRUE])

\* Editor._delete_current_beat
delete_current_beat(e) ==
    IF e.current_file = <<>> THEN Outcome(e, "none")
    ELSE IF 0 <= e.current_beat_index
            /\ e.current_beat_index < Len(current_section(e).beats)
    THEN show_current_position(
             [with_beats(e, SliceAssign(current_section(e).beats,
                                        e.current_beat_index, e.current_beat_index + 1, <<>>))
                 EXCEPT !.modified = TRUE,
                        !.current_beat_index =
                            IF @ >= Len(current_section(e).beats) - 1
                            THEN Max(0, Len(current_section(e).beats) - 2)
                            ELSE @])
    ELSE Outcome(e, "none")

\* Editor._insert_notes with a non-empty notes_str
insert_notes(e, notes_str) ==
    IF e.current_file = <<>> THEN Outcome(e, "none")
    ELSE IF parse_beats(notes_str).err # "none" THEN Outcome(e, parse_beats(notes_str).err)
    ELSE IF parse_beats(notes_str).val = <<>> THEN Outcome(e, "none")
    ELSE show_current_position(
             [with_beats(e, SliceAssign(current_section(e).beats,
                                        e.current_beat_index,
                                        e.current_beat_index,
                                        parse_beats(notes_str).val))
                 EXCEPT !.modified = TRUE,
                        !.current_beat_index = @ + Len(parse_beats(notes_str).val)])

\* Editor.__init__; current_file is <<>> for None and <<file>> for a file
NewEditor ==
    [current_file |-> <<>>, current_section_index |-> 0, current_beat_index |-> 0,
     modified |-> FALSE]

\* the lines of the composition block of the files the editor loads
EditorLines == { <<"#", "A">>, <<"#", "B">>, <<"S", SPACE, "R">>, <<"S">> }

\* the files: empty metadata and scale blocks, then the composition block
EditorTexts ==
    { <<"@", "@">> \o Join(ls, <<"\n">>) : ls \in SeqsUpTo(EditorLines, MaxEditorLines) }

\* the notes given to append, insert and replace
NotesEntered == { <<"S">>, <<"S", SPACE, "R">> }

\* the editor as start finds it: after a load_file that did not raise, or
\* after new_file
InitEditor ==
    /\ BuilderIdle
    /\ ShowIdle
    /\ ParserIdle
    /\ GroupIdle
    /\ LineIdle
    /\ FileIdle
    /\ LoadIdle
    /\ editor \in { load_file(NewEditor, text).editor :
                        text \in { t \in EditorTexts : load_file(NewEditor, t).err = "none" } }
                  \cup { new_file(NewEditor).editor }
    /\ command = "none"
    /\ editor_raised = "none"

\* _handle_command: the command cmd with the outcome r; an exception leaves
\* the loop of start, which catches KeyboardInterrupt and EOFError alone, so
\* commands are handled as long as none has raised
Handled(cmd, r) ==
    /\ editor' = r.editor
    /\ editor_raised' = r.err
    /\ command' = cmd
    /\ UNCHANGED besides_editor

MoveNext == editor_raised = "none" /\ Handled("next", move_next(editor))
MovePrev == editor_raised = "none" /\ Handled("prev", move_prev(editor))
AppendNotes ==
    \E notes_str \in NotesEntered :
        editor_raised = "none" /\ Handled("append", append_notes(editor, notes_str))
InsertNotes ==
    \E notes_str \in NotesEntered :
        editor_raised = "none" /\ Handled("insert", insert_notes(editor, notes_str))
ReplaceNotes ==
    \E notes_str \in NotesEntered :
        editor_raised = "none" /\ Handled("replace", replace_notes(editor, notes_str))
DeleteCurrentBeat == editor_raised = "none" /\ Handled("delete", delete_current_beat(editor))

NextEditor ==
    \/ MoveNext
    \/ MovePrev
    \/ AppendNotes
    \/ InsertNotes
    \/ ReplaceNotes
    \/ DeleteCurrentBeat

SpecEditor == InitEditor /\ [][NextEditor]_vars

\* C27 (cursor in range), as claimed: after any next, prev, append, insert,
\* replace and delete commands on a file with at least one section,
\* current_section_index is the index of a section and current_beat_index
\* the index of a beat of that section, or 0 when the section has no beat.
CursorInRange ==
    /\ editor.current_section_index \in 0..(Len(editor.current_file[1].composition) - 1)
    /\ IF current_section(editor).beats = <<>>
       THEN editor.current_beat_index = 0
       ELSE editor.current_beat_index \in 0..(Len(current_section(editor).beats) - 1)

====
